---------------------------- MODULE Spec2Model ----------------------------
(***************************************************************************)
(* A model of the VLA tracker's retrieval-and-aggregation pipeline:        *)
(*   crawler.py     the four source adapters and search_all_sites          *)
(*   arxiv_helper.py, summarizer.py   enrichment and grouping              *)
(*   storage.py     the weekly archive (one JSON file per week key)        *)
(*   run_daily.py, backfill_weeks.py, refresh_weeks.py   the drivers       *)
(*                                                                         *)
(* Conventions.  A Python dict is a TLA+ record whose DOMAIN is the set of *)
(* keys present.  A text (title, url, snippet ...) is a sequence of        *)
(* tokens, so that substring tests and the regular expressions of          *)
(* arxiv_helper.py can be evaluated on it; Python None is the text         *)
(* NoneVal.  A calendar date is its day number, day 0 being a Monday.      *)
(***************************************************************************)
EXTENDS Integers, Sequences, FiniteSets, TLC

VARIABLES
    \* ---- search_all_sites (crawler.py) ----
    target_sites,          \* the target_sites argument
    has_google,            \* bool(GOOGLE_API_KEY and GOOGLE_CSE_ID)
    organizations,         \* config.RESEARCH_ORGANIZATIONS
    pc,                    \* position inside search_all_sites
    idx,                   \* index of the site being processed (1-based)
    all_results,           \* all_results of search_all_sites
    google_rate_limited,   \* the run-scoped flag of search_all_sites
    org_idx,               \* index of the organization being processed
    org_results,           \* all_results of search_organizations
    org_rate_limited,      \* google_rate_limited of search_organizations
    trace,                 \* history: the adapter calls and sleeps of the run
    \* ---- one adapter call in isolation ----
    ad_call,               \* the last adapter call: adapter, provider, outcome
    \* ---- the drivers and the archive ----
    weeks_store,           \* data/weeks: file name -> weekly document
    daily_store,           \* data: file name -> daily document
    today,                 \* datetime.utcnow().date()
    driver,                \* the driver invoked last
    dpc,                   \* position inside that driver
    run_args,              \* its arguments and, for run_once, its target week
    run_today,             \* `today` as run_once read it when it started
    weeks,                 \* the weeks the driver still has to process
    raw_items,             \* raw_items of the week being processed
    run_log,               \* history: what this invocation did, week by week
    start_populated,       \* history: the weeks that had items when it started
    prev_target,           \* history: the target week of the invocation before
                           \* this one if that was run_once, NoDate otherwise
    runs,                  \* driver processes running side by side on the
                           \* archive: process -> its position and locals
    \* ---- storage.py call by call ----
    save_pending,          \* the save_week_results call in progress, if any
    written,               \* history: file name -> what the last save of it wrote
    listing                \* history: the last list_all_weeks call

orchVars == <<target_sites, has_google, organizations, pc, idx, all_results,
              google_rate_limited, org_idx, org_results, org_rate_limited, trace>>
driverVars == <<weeks_store, daily_store, today, driver, dpc, run_args, run_today,
                weeks, raw_items, run_log, start_populated, prev_target, runs>>
storageVars == <<save_pending, written, listing>>
vars == <<orchVars, ad_call, driverVars, storageVars>>

-----------------------------------------------------------------------------
(* Bounds of the model *)

\* the largest number of items a provider holds for one query
MaxItems == 1
\* the number of organizations configured
MaxOrgs == 3
\* the largest number of items a provider holds when an adapter is called
\* on its own (more than one page of Google results)
MaxHeld == 31
LastDay == 14       \* the clock of the model stops at this day
MaxForeign == 2     \* files in data/weeks that the tracker did not write
MaxMixed == 3       \* items in a provider list that mixes kept and skipped items
MaxEnrich == 3      \* records in a list given to enrich_arxiv_items
MaxSummary == 3     \* records in a short list given to simple_group_and_summarize
FirstDay == 13      \* the day the clock starts at: Sunday 2025-01-19

-----------------------------------------------------------------------------
(* Generic helpers *)

Min(a, b) == IF a <= b THEN a ELSE b

Take(s, n) == SubSeq(s, 1, Min(n, Len(s)))

SeqsUpTo(S, n) == UNION {[1..k -> S] : k \in 0..n}

NoneVal == <<"<None>">>

\* Python truthiness of a text value
Truthy(t) == t # NoneVal /\ t # <<>>

\* `a or b` on text values
OrElse(a, b) == IF Truthy(a) THEN a ELSE b

\* `tok in text`: the text contains the token
Contains(t, tok) == \E i \in 1..Len(t) : t[i] = tok

\* dict.get(key, default)
Get(d, key, default) == IF key \in DOMAIN d THEN d[key] ELSE default

\* d with d[key] = value (the key added when absent)
Put(d, key, value) ==
    [k \in DOMAIN d \cup {key} |-> IF k = key THEN value ELSE d[k]]

-----------------------------------------------------------------------------
(* Exceptions and outcomes of an adapter call *)

Ok(results)     == [kind |-> "ok", results |-> results]
RateLimitError  == [kind |-> "RateLimitError", results |-> <<>>]
SearchError     == [kind |-> "SearchError", results |-> <<>>]
\* any exception that is neither SearchError nor its subclass RateLimitError
\* (requests.RequestException, ValueError of resp.json(), xml ParseError ...)
OtherException  == [kind |-> "Exception", results |-> <<>>]

-----------------------------------------------------------------------------
(* The provider behind an adapter.  It holds `items`, answers the requests *)
(* of one adapter call in order, and answers request number `fault_at`     *)
(* (0 = never) with `fault`:                                               *)
(*   "transport"     requests.get raises; the message names no rate limit  *)
(*   "transport_rl"  requests.get raises; the message holds "429" or       *)
(*                   "rate limit"                                          *)
(*   "429", "403_rl0" (403, X-RateLimit-Remaining "0" or absent),          *)
(*   "403" (403, quota remaining), "500"     an HTTP status                *)
(*   "malformed"     status 200 with a body that does not parse            *)

Faults == {"transport", "transport_rl", "429", "403_rl0", "403", "500", "malformed"}

Provider(items, fault_at, fault) ==
    [items |-> items, fault_at |-> fault_at, fault |-> fault]

\* the answer to request number k asking for `num` items from 1-based `start`
Response(prov, k, start, num) ==
    IF prov.fault_at = k
    THEN [fault |-> prov.fault, items |-> <<>>]
    ELSE [fault |-> "none",
          items |-> IF start > Len(prov.items) THEN <<>>
                    ELSE SubSeq(prov.items, start,
                                Min(Len(prov.items), start + num - 1))]

\* the except-Exception clause shared by github_search, huggingface_search
\* and arxiv_search: the message of the exception decides the class
ClassifyByMessage(fault) ==
    IF fault = "transport_rl" THEN RateLimitError ELSE SearchError

-----------------------------------------------------------------------------
(* google_site_search *)

ItemsPerPage == 10
GoogleMaxResults == 30

GoogleRecord(item, site, rank) ==
    [title |-> Get(item, "title", NoneVal), url |-> Get(item, "link", NoneVal),
     snippet |-> Get(item, "snippet", NoneVal), site |-> site, rank |-> rank]

RECURSIVE GoogleAppend_RankInPage(_, _, _, _)
GoogleAppend_RankInPage(items, site, max_results, results) ==
    IF items = <<>> THEN results
    ELSE LET r == Append(results, GoogleRecord(Head(items), site,
                                               (Len(results) % ItemsPerPage) + 1))
         IN IF Len(r) >= max_results THEN r
            ELSE GoogleAppend_RankInPage(Tail(items), site, max_results, r)

\* the inner for loop: append until max_results records are held
RECURSIVE GoogleAppend(_, _, _, _)
GoogleAppend(items, site, max_results, results) ==
    IF items = <<>> THEN results
    ELSE LET r == Append(results, GoogleRecord(Head(items), site, Len(results) + 1))
         IN IF Len(r) >= max_results THEN r
            ELSE GoogleAppend(Tail(items), site, max_results, r)

\* an outcome together with the requests the call has issued: for each the
\* `start` and `num` parameters and the number of items the page held
WithRequests(out, requests) ==
    [kind |-> out.kind, results |-> out.results, requests |-> requests]

\* the page loop from page number `page` (0-based) on
RECURSIVE GooglePages(_, _, _, _, _, _, _)
GooglePages(prov, site, max_results, pages_needed, page, results, requests) ==
    IF page >= pages_needed THEN WithRequests(Ok(results), requests)
    ELSE LET start_index == page * ItemsPerPage + 1
             num_items   == Min(ItemsPerPage, max_results - Len(results))
             resp        == Response(prov, page + 1, start_index, num_items)
             issued      == Append(requests, [start |-> start_index, num |-> num_items,
                                              got |-> Len(resp.items)])
         IN CASE resp.fault \in {"transport", "transport_rl"} ->
                   WithRequests(OtherException, issued)
              [] resp.fault = "429" -> WithRequests(RateLimitError, issued)
              [] resp.fault \in {"403_rl0", "403", "500"} ->
                   WithRequests(SearchError, issued)
              [] resp.fault = "malformed" -> WithRequests(OtherException, issued)
              [] OTHER ->
                   IF resp.items = <<>> THEN WithRequests(Ok(results), issued)
                   ELSE LET r == GoogleAppend(resp.items, site, max_results, results)
                        IN IF Len(resp.items) < num_items
                           THEN WithRequests(Ok(r), issued)
                           ELSE GooglePages(prov, site, max_results,
                                            pages_needed, page + 1, r, issued)

google_site_search_FloorPages(prov, configured, site, max_results0) ==
    IF ~configured THEN WithRequests(SearchError, <<>>)
    ELSE LET max_results  == Min(max_results0, GoogleMaxResults)
             pages_needed == max_results \div ItemsPerPage
         IN GooglePages(prov, site, max_results, pages_needed, 0, <<>>, <<>>)

\* google_site_search(query, site, max_results, ...) with the configuration
\* present; `configured` = api_key and cse_id
google_site_search(prov, configured, site, max_results0) ==
    IF ~configured THEN WithRequests(SearchError, <<>>)
    ELSE LET max_results  == Min(max_results0, GoogleMaxResults)
             pages_needed == (max_results + ItemsPerPage - 1) \div ItemsPerPage
         IN GooglePages(prov, site, max_results, pages_needed, 0, <<>>, <<>>)

-----------------------------------------------------------------------------
(* github_search *)

GithubMaxResults == 100

\* str.lower() on the tokens the model uses
LowerTok(tok) ==
    CASE tok = "Awesome" -> "awesome"
      [] tok = "VLA" -> "vla"
      [] tok = "Robot" -> "robot"
      [] OTHER -> tok

Lower(t) == [i \in 1..Len(t) |-> LowerTok(t[i])]

filter_keywords ==
    {"arxiv_daily", "arxiv-daily", "paper-daily", "ai-daily", "ai_daily",
     "awesome", "blog"}

\* should_filter of the loop over items
ShouldFilter(item) ==
    LET title       == Lower(Get(item, "full_name", <<>>))
        description == Lower(OrElse(Get(item, "description", <<>>), <<>>))
        name        == Lower(OrElse(Get(item, "name", <<>>), <<>>))
    IN \E keyword \in filter_keywords :
          Contains(title, keyword) \/ Contains(description, keyword)
              \/ Contains(name, keyword)

FilteredItems(items) == SelectSeq(items, LAMBDA item : ~ShouldFilter(item))

GithubRecord(item, rank) ==
    [title |-> Get(item, "full_name", <<>>),
     url |-> Get(item, "html_url", <<>>),
     snippet |-> OrElse(Get(item, "description", <<>>), Get(item, "name", <<>>)),
     site |-> "github.com", rank |-> rank]

github_search(prov, max_results0) ==
    LET max_results == Min(max_results0, GithubMaxResults)
        resp == Response(prov, 1, 1, Min(max_results, GithubMaxResults))
    IN CASE resp.fault \in {"transport", "transport_rl"} ->
                ClassifyByMessage(resp.fault)
         [] resp.fault = "403_rl0" -> RateLimitError
         [] resp.fault = "403" -> SearchError
         [] resp.fault = "429" -> RateLimitError
         [] resp.fault = "500" -> SearchError
         [] resp.fault = "malformed" -> ClassifyByMessage(resp.fault)
         [] OTHER ->
              LET kept == Take(FilteredItems(resp.items), max_results)
              IN Ok([i \in 1..Len(kept) |-> GithubRecord(kept[i], i)])

-----------------------------------------------------------------------------
(* huggingface_search *)

HuggingfaceMaxResults == 100

\* updatedAt / createdAt of a model: a day number, or one of
NoDate  == -1000     \* absent (None)
BadDate == -999      \* present, not ISO 8601: fromisoformat raises ValueError

\* the client-side date filter: TRUE when the item is skipped (`continue`)
HfDateSkips(updated_at, after_date, before_date) ==
    /\ updated_at # NoDate
    /\ updated_at # BadDate
    /\ \/ updated_at < after_date
       \/ updated_at > before_date

HfRecord(item, updated_at, rank) ==
    [title |-> item.id,
     url |-> <<"https://huggingface.co/">> \o item.id,
     snippet |-> OrElse(Get(item, "summary", <<>>), Get(item, "modelId", <<>>)),
     site |-> "huggingface.co", rank |-> rank, published |-> updated_at]

RECURSIVE HfLoop(_, _, _, _, _)
HfLoop(items, max_results, after_date, before_date, results) ==
    IF items = <<>> \/ Len(results) >= max_results THEN results
    ELSE LET item       == Head(items)
             model_id   == Get(item, "id", <<>>)
             updated_at == IF Get(item, "updatedAt", NoDate) # NoDate
                           THEN item.updatedAt
                           ELSE Get(item, "createdAt", NoDate)
         IN IF ~Truthy(model_id) \/ HfDateSkips(updated_at, after_date, before_date)
            THEN HfLoop(Tail(items), max_results, after_date, before_date, results)
            ELSE HfLoop(Tail(items), max_results, after_date, before_date,
                        Append(results, HfRecord(item, updated_at, Len(results) + 1)))

huggingface_search(prov, max_results0, after_date, before_date) ==
    LET max_results == Min(max_results0, HuggingfaceMaxResults)
        resp == Response(prov, 1, 1, max_results)
    IN CASE resp.fault \in {"transport", "transport_rl"} ->
                ClassifyByMessage(resp.fault)
         [] resp.fault = "429" -> RateLimitError
         [] resp.fault \in {"403_rl0", "403", "500"} -> SearchError
         [] resp.fault = "malformed" -> ClassifyByMessage(resp.fault)
         [] OTHER -> Ok(HfLoop(resp.items, max_results, after_date, before_date, <<>>))

-----------------------------------------------------------------------------
(* arxiv_search *)

ArxivMaxResults == 100
ArxivItemsPerPage == 100

ArxivRecord(entry, rank) ==
    LET base == [title |-> entry.title, url |-> entry.id,
                 snippet |-> Get(entry, "summary", <<>>),
                 site |-> "arxiv.org", rank |-> rank,
                 published |-> Get(entry, "published", NoDate)]
    IN IF Get(entry, "authors", <<>>) # <<>>
       THEN Put(base, "authors", entry.authors)
       ELSE base

\* the loop over the entries of one page
RECURSIVE ArxivEntries(_, _, _)
ArxivEntries(entries, max_results, results) ==
    IF entries = <<>> \/ Len(results) >= max_results THEN results
    ELSE LET entry == Head(entries)
         IN IF Truthy(Get(entry, "title", <<>>)) /\ Truthy(Get(entry, "id", <<>>))
            THEN ArxivEntries(Tail(entries), max_results,
                              Append(results, ArxivRecord(entry, Len(results) + 1)))
            ELSE ArxivEntries(Tail(entries), max_results, results)

RECURSIVE ArxivPages(_, _, _, _, _)
ArxivPages(prov, max_results, pages_needed, page, results) ==
    IF page >= pages_needed THEN Ok(results)
    ELSE LET start     == page * ArxivItemsPerPage
             num_items == Min(ArxivItemsPerPage, max_results - Len(results))
             resp      == Response(prov, page + 1, start + 1, num_items)
         IN CASE resp.fault \in {"transport", "transport_rl"} ->
                     ClassifyByMessage(resp.fault)
              [] resp.fault = "429" -> RateLimitError
              [] resp.fault \in {"403_rl0", "403", "500"} -> SearchError
              [] resp.fault = "malformed" -> ClassifyByMessage(resp.fault)
              [] OTHER ->
                   IF resp.items = <<>> THEN Ok(results)
                   ELSE LET r == ArxivEntries(resp.items, max_results, results)
                        IN IF Len(resp.items) < num_items THEN Ok(r)
                           ELSE ArxivPages(prov, max_results, pages_needed,
                                           page + 1, r)

arxiv_search(prov, max_results0) ==
    LET max_results  == Min(max_results0, ArxivMaxResults)
        pages_needed == (max_results + ArxivItemsPerPage - 1) \div ArxivItemsPerPage
    IN ArxivPages(prov, max_results, pages_needed, 0, <<>>)

-----------------------------------------------------------------------------
(* Configuration (config.example.py) and the items the providers hold *)

TARGET_SITES == <<"zhihu.com", "github.com", "huggingface.co", "arxiv.org">>

RESEARCH_ORGANIZATIONS == <<"NVIDIA", "Google DeepMind", "Meta", "Microsoft">>

\* int(getattr(config, "MAX_RESULTS_PER_SITE", 10))
max_results_per_site == 10

\* the target_sites arguments the model runs search_all_sites with
TargetSiteLists == {TARGET_SITES, <<"arxiv.org", "zhihu.com">>}

UrlZhihu     == <<"https://", "zhihu.com", "/p/", "d4">>
UrlOrgNews   == <<"https://", "example.com", "/news">>
UrlArxivAbs  == <<"http://", "arxiv.org", "/abs/", "d4", ".", "d5", "v1">>
UrlArxivList == <<"https://", "arxiv.org", "/list/", "cs.RO">>
UrlGithub    == <<"https://", "github.com", "/", "owner/", "vla">>

\* what Google holds for a query restricted to `site` ("" = the whole web)
GoogleItems(site) ==
    CASE site = "arxiv.org" ->
           {[title |-> <<"1 Introduction">>, link |-> UrlArxivAbs, snippet |-> <<"vla">>]}
      [] site = "" ->
           {[title |-> <<"VLA">>, link |-> UrlOrgNews, snippet |-> <<"robot">>]}
      [] OTHER ->
           {[title |-> <<"VLA">>, link |-> UrlZhihu, snippet |-> <<"robot">>]}

GithubItems ==
    {[full_name |-> <<"owner/", "vla">>, name |-> <<"vla">>,
      description |-> <<"robot">>, html_url |-> UrlGithub]}

\* two models: one passes the content filter of search_all_sites, one does not
HuggingfaceItems ==
    {[id |-> <<"org/", "VLA", "-", "Robot">>, updatedAt |-> NoDate],
     [id |-> <<"org/", "VLA", "-", "chat">>, updatedAt |-> NoDate]}

ArxivEntrySet ==
    {[title |-> <<"A", "VLA", "paper">>, id |-> UrlArxivAbs,
      summary |-> <<"abstract">>, published |-> 0, authors |-> <<"A. Author">>]}

\* the outcomes a provider can give one adapter call
Providers(alphabet) ==
    {Provider(items, 0, "none") : items \in SeqsUpTo(alphabet, MaxItems)}
        \cup {Provider(<<>>, 1, f) : f \in Faults}

-----------------------------------------------------------------------------
(* search_all_sites and search_organizations, one step per adapter call *)

Site == target_sites[idx]

\* no driver has been invoked: the archive is empty
NoDriver ==
    /\ weeks_store = <<>>
    /\ daily_store = <<>>
    /\ today = FirstDay
    /\ driver = "none"
    /\ dpc = "idle"
    /\ run_args = [since |-> <<>>, max_weeks |-> 0, skip_if_all_exist |-> FALSE,
                   target |-> NoDate]
    /\ run_today = FirstDay
    /\ weeks = <<>>
    /\ raw_items = <<>>
    /\ run_log = <<>>
    /\ start_populated = {}
    /\ prev_target = NoDate
    /\ runs = <<>>
    /\ save_pending = <<>>
    /\ written = <<>>
    /\ listing = <<>>

CallEvent(adapter, site, pass, out) ==
    [kind |-> "call", adapter |-> adapter, site |-> site, pass |-> pass,
     out |-> out.kind, results |-> out.results]

SleepEvent(site) ==
    [kind |-> "sleep", adapter |-> "-", site |-> site, pass |-> "site",
     out |-> "-", results |-> <<>>]

\* r["fetched_at"] = datetime.utcnow().isoformat() for every record
Stamp(results) == [i \in 1..Len(results) |-> Put(results[i], "fetched_at", "now")]

\* item["organization"] = org; item["site"] = "organizations"
TagOrganization(results, org) ==
    [i \in 1..Len(results) |->
        Put(Put(results[i], "organization", org), "site", "organizations")]

\* the content filter applied to the HuggingFace results
HfContentFilter(results, limit) ==
    LET HasTok(r, tok) ==
            Contains(Lower(Get(r, "title", <<>>)), tok)
                \/ Contains(Lower(Get(r, "snippet", <<>>)), tok)
        keep == SelectSeq(results, LAMBDA r :
                    HasTok(r, "vla") /\ (HasTok(r, "drive") \/ HasTok(r, "robot")))
    IN Take(keep, limit)

\* mutant: the site's records are dropped instead of appended
ExtendStamped_Dropped(all, site_results) == all

\* lines 667-670: the records of the site are stamped and appended
ExtendStamped(all, site_results) == all \o Stamp(site_results)

\* mutant: the arXiv result is never taken as final
ArxivSucceeded_Never(out) == FALSE

\* line 557, `if site_results:` after arxiv_search returned
ArxivSucceeded(out) == out.kind = "ok" /\ out.results # <<>>

\* mutant: the rate-limit flag is not consulted
GoogleAvailable_IgnoresFlag == has_google

\* lines 637 and 677: `has_google and not google_rate_limited`
GoogleAvailable == has_google /\ ~google_rate_limited

\* `continue`: on to the next site, or out of the loop
NextSite ==
    /\ idx' = idx + 1
    /\ pc' = IF idx + 1 > Len(target_sites) THEN "sites_done" ELSE "site"

orchFrame == UNCHANGED <<target_sites, has_google, organizations, ad_call, driverVars,
                         storageVars>>
orgFrame  == UNCHANGED <<org_idx, org_results, org_rate_limited>>

\* lines 550-569: arXiv first; an empty list or any exception falls through
\* to the Google block
ArxivCall(prov) ==
    /\ pc = "site" /\ Site = "arxiv.org"
    /\ LET out == arxiv_search(prov, max_results_per_site)
       IN /\ trace' = Append(trace, CallEvent("arxiv", Site, "site", out))
          /\ IF ArxivSucceeded(out)
             THEN /\ all_results' = all_results \o out.results
                  /\ NextSite
             ELSE /\ pc' = "google"
                  /\ UNCHANGED <<all_results, idx>>
    /\ UNCHANGED google_rate_limited
    /\ orchFrame /\ orgFrame

\* lines 571-591: every outcome of github_search ends the iteration
GithubCall(prov) ==
    /\ pc = "site" /\ Site = "github.com"
    /\ LET out == github_search(prov, max_results_per_site)
       IN /\ trace' = Append(trace, CallEvent("github", Site, "site", out))
          /\ all_results' = all_results \o out.results
    /\ NextSite
    /\ UNCHANGED google_rate_limited
    /\ orchFrame /\ orgFrame

\* lines 593-634
HuggingfaceCall(prov) ==
    /\ pc = "site" /\ Site = "huggingface.co"
    /\ LET out == huggingface_search(prov, max_results_per_site * 3, 0, 7)
           site_results == HfContentFilter(out.results, max_results_per_site)
       IN /\ trace' = Append(trace, CallEvent("huggingface", Site, "site", out))
          /\ all_results' = all_results \o site_results
    /\ NextSite
    /\ UNCHANGED google_rate_limited
    /\ orchFrame /\ orgFrame

AtGoogleBlock ==
    \/ pc = "google"
    \/ pc = "site" /\ target_sites[idx] \notin {"arxiv.org", "github.com", "huggingface.co"}

\* lines 636-674: the Google block, Google available
GoogleCall ==
    /\ AtGoogleBlock
    /\ GoogleAvailable
    /\ \E prov \in Providers(GoogleItems(Site)) :
       LET out == google_site_search(prov, has_google, Site, max_results_per_site)
           ev  == CallEvent("google", Site, "site", out)
       IN CASE out.kind = "ok" ->
                 /\ all_results' = ExtendStamped(all_results, out.results)
                 /\ trace' = IF idx < Len(target_sites)
                             THEN Append(Append(trace, ev), SleepEvent(Site))
                             ELSE Append(trace, ev)
                 /\ NextSite
                 /\ UNCHANGED google_rate_limited
            [] out.kind = "RateLimitError" ->
                 /\ google_rate_limited' = TRUE
                 /\ trace' = Append(trace, ev)
                 /\ NextSite
                 /\ UNCHANGED all_results
            [] out.kind = "SearchError" ->
                 /\ trace' = Append(trace, ev)
                 /\ NextSite
                 /\ UNCHANGED <<all_results, google_rate_limited>>
            [] OTHER ->
                 \* no handler catches it: search_all_sites raises
                 /\ trace' = Append(trace, ev)
                 /\ pc' = "raised"
                 /\ UNCHANGED <<all_results, google_rate_limited, idx>>
    /\ orchFrame /\ orgFrame

\* lines 657-660: Google not configured or flagged: the site is skipped
GoogleSkip ==
    /\ AtGoogleBlock
    /\ ~GoogleAvailable
    /\ NextSite
    /\ UNCHANGED <<all_results, google_rate_limited, trace>>
    /\ orchFrame /\ orgFrame

\* lines 676-677 and 715-722
OrgPassStart ==
    /\ pc = "sites_done"
    /\ IF GoogleAvailable
       THEN /\ pc' = "org"
            /\ org_idx' = 1
            /\ org_results' = <<>>
            /\ org_rate_limited' = FALSE
       ELSE /\ pc' = "returned"
            /\ orgFrame
    /\ UNCHANGED <<idx, all_results, google_rate_limited, trace>>
    /\ orchFrame

\* mutant: a rate limit does not set the flag of the organization pass
OrgRateLimitHit_Ignored(out) == FALSE

\* lines 750-753: `except RateLimitError` sets google_rate_limited
OrgRateLimitHit(out) == out.kind = "RateLimitError"

\* lines 724-761, one organization
OrgCall(prov) ==
    /\ pc = "org" /\ org_idx <= Len(organizations)
    /\ ~org_rate_limited
    /\ LET org == organizations[org_idx]
           out == google_site_search(prov, has_google, "", max_results_per_site)
       IN /\ trace' = Append(trace, CallEvent("google", org, "org", out))
          /\ org_results' = org_results \o TagOrganization(out.results, org)
          /\ org_rate_limited' = OrgRateLimitHit(out)
    /\ org_idx' = org_idx + 1
    /\ UNCHANGED <<pc, idx, all_results, google_rate_limited>>
    /\ orchFrame

\* lines 725-727
OrgSkip ==
    /\ pc = "org" /\ org_idx <= Len(organizations)
    /\ org_rate_limited
    /\ org_idx' = org_idx + 1
    /\ UNCHANGED <<pc, idx, all_results, google_rate_limited, trace,
                   org_results, org_rate_limited>>
    /\ orchFrame

\* lines 763 and 685-693
OrgPassEnd ==
    /\ pc = "org" /\ org_idx > Len(organizations)
    /\ all_results' = all_results \o org_results
    /\ pc' = "returned"
    /\ UNCHANGED <<idx, google_rate_limited, trace>>
    /\ orgFrame /\ orchFrame

Init ==
    /\ target_sites \in TargetSiteLists
    /\ has_google \in BOOLEAN
    /\ organizations = Take(RESEARCH_ORGANIZATIONS, MaxOrgs)
    /\ pc = "site"
    /\ idx = 1
    /\ all_results = <<>>
    /\ google_rate_limited = FALSE
    /\ org_idx = 1
    /\ org_results = <<>>
    /\ org_rate_limited = FALSE
    /\ trace = <<>>
    /\ ad_call = <<>>
    /\ NoDriver

Next ==
    \/ \E prov \in Providers(ArxivEntrySet) : ArxivCall(prov)
    \/ \E prov \in Providers(GithubItems) : GithubCall(prov)
    \/ \E prov \in Providers(HuggingfaceItems) : HuggingfaceCall(prov)
    \/ GoogleCall
    \/ GoogleSkip
    \/ OrgPassStart
    \/ \E prov \in Providers(GoogleItems("")) : OrgCall(prov)
    \/ OrgSkip
    \/ OrgPassEnd

Spec == Init /\ [][Next]_vars

-----------------------------------------------------------------------------
(* arxiv_helper.py: extract_arxiv_id and enrich_arxiv_items *)

\* a run of digits is one token, "d<n>" for n digits
DigitRuns == {"d3", "d4", "d5", "d6"}
DigitLen(tok) ==
    CASE tok = "d3" -> 3 [] tok = "d4" -> 4 [] tok = "d5" -> 5 [] tok = "d6" -> 6
      [] OTHER -> 0

\* re.search(r"arxiv\.org/<kind>/(\d{4}\.\d{4,5})", url) matches at token i:
\* exactly four digits follow the path, then a dot, then at least four digits
\* (of which at most five are captured)
IdMatchAt(url, path, i) ==
    /\ i + 4 <= Len(url)
    /\ url[i] = "arxiv.org" /\ url[i + 1] = path
    /\ url[i + 2] = "d4" /\ url[i + 3] = "."
    /\ DigitLen(url[i + 4]) >= 4

IdMatches(url, path) == \E i \in 1..Len(url) : IdMatchAt(url, path, i)

CapturedId(url, path) ==
    LET i == CHOOSE k \in 1..Len(url) :
                 IdMatchAt(url, path, k) /\ \A m \in 1..(k - 1) : ~IdMatchAt(url, path, m)
    IN <<"d4", ".", IF DigitLen(url[i + 4]) = 4 THEN "d4" ELSE "d5">>

\* the three patterns in order; NoneVal when none matches
extract_arxiv_id(url) ==
    CASE IdMatches(url, "/abs/")  -> CapturedId(url, "/abs/")
      [] IdMatches(url, "/html/") -> CapturedId(url, "/html/")
      [] IdMatches(url, "/pdf/")  -> CapturedId(url, "/pdf/")
      [] OTHER -> NoneVal

\* What the network gives enrich_arxiv_items for one paper:
\*   title, abstract  what get_arxiv_metadata returns (NoneVal on failure)
\*   authors          the author list (<<>> = None)
\*   tr               "ok" when translator.translate returns, "raise" when it
\*                    raises, "none" when it is not called
\*   zh               the text translator.translate returns (NoneVal = None)
MetaFailed == [title |-> NoneVal, abstract |-> NoneVal, authors |-> <<>>,
               tr |-> "none", zh |-> NoneVal]
MetaOk     == [title |-> <<"Canonical", "title">>, abstract |-> <<"abstract">>,
               authors |-> <<"A. Author">>, tr |-> "ok", zh |-> <<"zh-abstract">>]
MetaNoTranslation ==
    [title |-> <<"Canonical", "title">>, abstract |-> <<"abstract">>,
     authors |-> <<"A. Author">>, tr |-> "raise", zh |-> NoneVal]

EnrichOutcomes == {MetaFailed, MetaOk, MetaNoTranslation}

\* str.strip() of a text leaves nothing
IsBlank(t) == \A i \in 1..Len(t) : t[i] \in {" ", "\n"}

\* translate_with_googletrans: the text of the result, None when the
\* translator raised or gave no text
translate_with_googletrans(net) ==
    IF net.tr = "ok" /\ Truthy(net.zh) THEN net.zh ELSE NoneVal

\* translate_to_chinese: `if result and result.strip()`
translate_to_chinese(net) ==
    LET result == translate_with_googletrans(net)
    IN IF Truthy(result) /\ ~IsBlank(result) THEN result ELSE NoneVal

\* mutant: the metadata title is written whether or not one was obtained
EnrichOne_TitleAlways(item, arxiv_id, net) ==
    LET i1 == Put(item, "arxiv_id", arxiv_id)
        i2 == Put(i1, "title", net.title)
        i3 == IF net.authors # <<>> THEN Put(i2, "authors", net.authors) ELSE i2
    IN IF Truthy(net.abstract)
       THEN LET abstract_zh == translate_to_chinese(net)
                zh == IF Truthy(abstract_zh) /\ ~IsBlank(abstract_zh)
                      THEN abstract_zh ELSE net.abstract
            IN Put(Put(i3, "abstract", net.abstract), "abstract_zh", zh)
       ELSE Put(Put(i3, "abstract", <<>>), "abstract_zh", <<>>)

\* mutant: no fallback to the original abstract
EnrichOne_NoFallback(item, arxiv_id, net) ==
    LET i1 == Put(item, "arxiv_id", arxiv_id)
        i2 == IF Truthy(net.title) THEN Put(i1, "title", net.title) ELSE i1
        i3 == IF net.authors # <<>> THEN Put(i2, "authors", net.authors) ELSE i2
    IN IF Truthy(net.abstract)
       THEN LET abstract_zh == translate_to_chinese(net)
                zh == IF Truthy(abstract_zh) THEN abstract_zh ELSE <<>>
            IN Put(Put(i3, "abstract", net.abstract), "abstract_zh", zh)
       ELSE Put(Put(i3, "abstract", <<>>), "abstract_zh", <<>>)

\* the body of the loop for one paper whose id was extracted
EnrichOne(item, arxiv_id, net) ==
    LET i1 == Put(item, "arxiv_id", arxiv_id)
        i2 == IF Truthy(net.title) THEN Put(i1, "title", net.title) ELSE i1
        i3 == IF net.authors # <<>> THEN Put(i2, "authors", net.authors) ELSE i2
    IN IF Truthy(net.abstract)
       THEN LET abstract_zh == translate_to_chinese(net)
                zh == IF Truthy(abstract_zh) /\ ~IsBlank(abstract_zh)
                      THEN abstract_zh ELSE net.abstract
            IN Put(Put(i3, "abstract", net.abstract), "abstract_zh", zh)
       ELSE Put(Put(i3, "abstract", <<>>), "abstract_zh", <<>>)

\* mutant: a page of arxiv.org without a paper id is passed through
RECURSIVE EnrichFrom_KeepsPages(_, _, _, _)
EnrichFrom_KeepsPages(items, net, k, enriched_items) ==
    IF k > Len(items) THEN enriched_items
    ELSE LET item == items[k]
             url  == Get(item, "url", <<>>)
         IN IF extract_arxiv_id(url) = NoneVal
            THEN EnrichFrom_KeepsPages(items, net, k + 1, Append(enriched_items, item))
            ELSE EnrichFrom_KeepsPages(items, net, k + 1,
                     Append(enriched_items,
                            EnrichOne(item, extract_arxiv_id(url), net[k])))

\* enrich_arxiv_items(items); net[k] is what the network gives for items[k]
RECURSIVE EnrichFrom(_, _, _, _)
EnrichFrom(items, net, k, enriched_items) ==
    IF k > Len(items) THEN enriched_items
    ELSE LET item == items[k]
             url  == Get(item, "url", <<>>)
         IN IF ~Truthy(url) \/ ~Contains(url, "arxiv.org")
            THEN EnrichFrom(items, net, k + 1, Append(enriched_items, item))
            ELSE IF extract_arxiv_id(url) = NoneVal
            THEN EnrichFrom(items, net, k + 1, enriched_items)
            ELSE EnrichFrom(items, net, k + 1,
                     Append(enriched_items,
                            EnrichOne(item, extract_arxiv_id(url), net[k])))

enrich_arxiv_items(items, net) == EnrichFrom(items, net, 1, <<>>)

\* the calls and sleeps of enrich_arxiv_items for item number k (idx = k - 1):
\* get_arxiv_metadata, `if idx > 0: time.sleep(3)` and translate_to_chinese
\* when an abstract came, `if idx < len(items) - 1: time.sleep(1)` at the end
EnrichEventsOf(items, net, k) ==
    LET url == Get(items[k], "url", <<>>)
    IN IF ~Truthy(url) \/ ~Contains(url, "arxiv.org") \/ extract_arxiv_id(url) = NoneVal
       THEN <<>>
       ELSE <<[kind |-> "metadata", item |-> k]>>
              \o (IF Truthy(net[k].abstract)
                  THEN (IF k - 1 > 0 THEN <<[kind |-> "sleep3", item |-> k]>> ELSE <<>>)
                           \o <<[kind |-> "translate", item |-> k]>>
                  ELSE <<>>)
              \o (IF k - 1 < Len(items) - 1
                  THEN <<[kind |-> "sleep1", item |-> k]>> ELSE <<>>)

RECURSIVE EnrichEvents(_, _, _)
EnrichEvents(items, net, k) ==
    IF k = 0 THEN <<>>
    ELSE EnrichEvents(items, net, k - 1) \o EnrichEventsOf(items, net, k)

-----------------------------------------------------------------------------
(* summarizer.py: simple_group_and_summarize *)

SiteCap == 30
OrgCap == 100
MissingRank == 999

SiteOf(item) == Get(item, "site", "unknown")

\* list.sort(key=lambda x: x.get("rank", 999)): a stable sort
RankKey(item) == Get(item, "rank", MissingRank)

\* the place of items[i] after the sort: behind every item of smaller key
\* and behind the earlier items of equal key
SortedPlace(items, i) ==
    Cardinality({j \in 1..Len(items) :
                    \/ RankKey(items[j]) < RankKey(items[i])
                    \/ RankKey(items[j]) = RankKey(items[i]) /\ j < i}) + 1

SortByRank(items) ==
    LET place == [i \in 1..Len(items) |-> SortedPlace(items, i)]
    IN [p \in 1..Len(items) |->
           items[CHOOSE i \in 1..Len(items) : place[i] = p]]

\* mutant: the group is left in arrival order
SortIfRanked_Never(items) == items

\* `if items and "rank" in items[0]: items.sort(...)`
SortIfRanked(items) ==
    IF items # <<>> /\ "rank" \in DOMAIN items[1] THEN SortByRank(items) ELSE items

\* grouped[site]: the items of a site in arrival order
Grouped(items, site) ==
    SelectSeq(items, LAMBDA it : SiteOf(it) = site /\ SiteOf(it) # "organizations")

\* org_grouped[org]
OrgGrouped(items, org) ==
    SelectSeq(items, LAMBDA it :
        SiteOf(it) = "organizations" /\ Get(it, "organization", "Unknown") = org)

summary_target_sites == <<"zhihu.com", "github.com", "huggingface.co", "arxiv.org">>

\* the f-strings of the summary lines, as the values they are built from
FoundText(site, n) == [text |-> "found", site |-> site, n |-> n, orgs |-> 0, top |-> n]
NoUpdateText(site) == [text |-> "none", site |-> site, n |-> 0, orgs |-> 0, top |-> 0]

\* mutant: the group is not cut
TargetBlock_Uncapped(items, site, net) ==
    LET capped == SortIfRanked(Grouped(items, site))
        site_items == IF site = "arxiv.org" /\ capped # <<>>
                      THEN enrich_arxiv_items(capped, net)
                      ELSE capped
    IN [site |-> site,
        site_summary |-> IF site_items # <<>> THEN FoundText(site, Len(site_items))
                         ELSE NoUpdateText(site),
        items |-> site_items]

\* lines 37-64: the block of one of the four target sites
TargetBlock(items, site, net) ==
    LET capped == Take(SortIfRanked(Grouped(items, site)), SiteCap)
        site_items == IF site = "arxiv.org" /\ capped # <<>>
                      THEN enrich_arxiv_items(capped, net)
                      ELSE capped
    IN [site |-> site,
        site_summary |-> IF site_items # <<>> THEN FoundText(site, Len(site_items))
                         ELSE NoUpdateText(site),
        items |-> site_items]

\* lines 78-94: the items of the organizations all_orgs[1..k], each capped
RECURSIVE OrgItemsUpTo(_, _, _)
OrgItemsUpTo(items, all_orgs, k) ==
    IF k = 0 THEN <<>>
    ELSE LET org_items == Take(SortIfRanked(OrgGrouped(items, all_orgs[k])), SiteCap)
         IN OrgItemsUpTo(items, all_orgs, k - 1)
                \o [i \in 1..Len(org_items) |->
                       Put(org_items[i], "organization", all_orgs[k])]

\* mutant: the records are counted before the cut
OrgStats_Uncapped(items, all_orgs) ==
    [org \in {all_orgs[k] : k \in 1..Len(all_orgs)} |-> Len(OrgGrouped(items, org))]

\* org_stats: the number of items kept for each organization
OrgStats(items, all_orgs) ==
    [org \in {all_orgs[k] : k \in 1..Len(all_orgs)} |->
        Len(Take(SortIfRanked(OrgGrouped(items, org)), SiteCap))]

RECURSIVE SumOver(_, _)
SumOver(f, S) ==
    IF S = {} THEN 0
    ELSE LET x == CHOOSE y \in S : TRUE IN f[x] + SumOver(f, S \ {x})

\* lines 66-120: the organizations block
OrgBlock(items, all_orgs) ==
    LET org_stats     == OrgStats(items, all_orgs)
        all_org_items == Take(SortIfRanked(OrgItemsUpTo(items, all_orgs, Len(all_orgs))),
                              OrgCap)
        total_items   == SumOver(org_stats, DOMAIN org_stats)
        orgs_with_data == Cardinality({o \in DOMAIN org_stats : org_stats[o] > 0})
    IN [site |-> "organizations",
        site_summary |-> IF total_items > 0
                         THEN [text |-> "found", site |-> "organizations",
                               n |-> total_items, orgs |-> orgs_with_data,
                               top |-> Len(all_org_items)]
                         ELSE NoUpdateText("organizations"),
        items |-> all_org_items,
        organization_stats |-> org_stats]

\* lines 122-139: the sites that are neither target sites nor organizations,
\* in the order of their first item
OtherSites(items, seen) ==
    LET IsOther(i) ==
            /\ SiteOf(items[i]) # "organizations"
            /\ SiteOf(items[i]) \notin seen
            /\ \A k \in 1..Len(summary_target_sites) :
                   summary_target_sites[k] # SiteOf(items[i])
        first == {i \in 1..Len(items) :
                     IsOther(i) /\ \A j \in 1..(i - 1) : SiteOf(items[j]) # SiteOf(items[i])}
    IN [p \in 1..Cardinality(first) |->
           SiteOf(items[CHOOSE i \in first :
                            Cardinality({j \in first : j < i}) = p - 1])]

OtherBlock(items, site) ==
    LET site_items == Take(SortIfRanked(Grouped(items, site)), SiteCap)
    IN [site |-> site, site_summary |-> FoundText(site, Len(site_items)),
        items |-> site_items]

\* the position of a site name in alphabetical order, among the names the
\* model uses for sites outside order_map
AlphaIndex(site) ==
    CASE site = "example.com" -> 1
      [] site = "unknown" -> 2
      [] OTHER -> 0

\* mutant: no site has a place of its own
OrderOf_Unordered(site) == 99

\* sort_key: (order_map.get(site, 99), site)
OrderOf(site) ==
    CASE site = "arxiv.org" -> 1
      [] site = "organizations" -> 2
      [] site = "github.com" -> 3
      [] site = "huggingface.co" -> 4
      [] site = "zhihu.com" -> 5
      [] OTHER -> 99

SortKeyLeq(a, b) ==
    \/ OrderOf(a.site) < OrderOf(b.site)
    \/ OrderOf(a.site) = OrderOf(b.site) /\ AlphaIndex(a.site) <= AlphaIndex(b.site)

\* sorted(site_summaries, key=sort_key): a stable sort
RECURSIVE InsertBlock(_, _)
InsertBlock(sorted, block) ==
    IF sorted = <<>> THEN <<block>>
    ELSE IF SortKeyLeq(sorted[Len(sorted)], block)
         THEN Append(sorted, block)
         ELSE Append(InsertBlock(SubSeq(sorted, 1, Len(sorted) - 1), block),
                     sorted[Len(sorted)])

RECURSIVE SortBlocks(_)
SortBlocks(blocks) ==
    IF blocks = <<>> THEN <<>>
    ELSE InsertBlock(SortBlocks(SubSeq(blocks, 1, Len(blocks) - 1)), blocks[Len(blocks)])

\* mutant: blocks without items are left out
simple_group_and_summarize_SkipsEmpty(items, net, all_orgs, now) ==
    LET others == OtherSites(items, {})
        site_summaries ==
            [k \in 1..Len(summary_target_sites) |->
                 TargetBlock(items, summary_target_sites[k], net)]
              \o <<OrgBlock(items, all_orgs)>>
              \o [k \in 1..Len(others) |-> OtherBlock(items, others[k])]
    IN [generated_at |-> now,
        sites |-> SortBlocks(SelectSeq(site_summaries, LAMBDA b : b.items # <<>>))]

\* simple_group_and_summarize(items): `net` is what the network gives the
\* enrichment, `all_orgs` is config.RESEARCH_ORGANIZATIONS, `now` the clock
simple_group_and_summarize(items, net, all_orgs, now) ==
    LET others == OtherSites(items, {})
        site_summaries ==
            [k \in 1..Len(summary_target_sites) |->
                 TargetBlock(items, summary_target_sites[k], net)]
              \o <<OrgBlock(items, all_orgs)>>
              \o [k \in 1..Len(others) |-> OtherBlock(items, others[k])]
    IN [generated_at |-> now, sites |-> SortBlocks(site_summaries)]

\* mutant: every target group is handed to the enrichment
SummarizeCalls_EveryGroup(items, net) ==
    LET capped == Take(SortIfRanked(Grouped(items, "github.com")
                                        \o Grouped(items, "arxiv.org")), SiteCap)
    IN IF capped # <<>>
       THEN EnrichEvents([k \in 1..Len(capped) |-> Put(capped[k], "url", UrlArxivAbs)],
                         net, Len(capped))
       ELSE <<>>

\* the network requests and sleeps of one call: those of the call of
\* enrich_arxiv_items at lines 47-50, the only external calls of the function
SummarizeCalls(items, net) ==
    LET capped == Take(SortIfRanked(Grouped(items, "arxiv.org")), SiteCap)
    IN IF capped # <<>> THEN EnrichEvents(capped, net, Len(capped)) ELSE <<>>

\* the input list after the call.  The groups hold the very records of the
\* input list, so what is assigned to a record of a group shows in the
\* input: item["arxiv_id"], item["title"], ... in enrich_arxiv_items for the
\* arxiv.org records within the cut, item["organization"] = org at line 93
\* for the records of the configured organizations within their cut.  The
\* sorts are done on the lists of the groups, never on the input list.
InputAfter(items, net, all_orgs) ==
    [i \in 1..Len(items) |->
        LET item  == items[i]
            \* the records of the group of the item, its first record, and
            \* the place of the item in the group once sorted
            group == {j \in 1..Len(items) :
                         /\ SiteOf(items[j]) = SiteOf(item)
                         /\ SiteOf(item) = "organizations" =>
                                Get(items[j], "organization", "Unknown")
                                    = Get(item, "organization", "Unknown")}
            first == items[CHOOSE j \in group : \A k \in group : j <= k]
            p     == IF "rank" \in DOMAIN first
                     THEN Cardinality({j \in group :
                              \/ RankKey(items[j]) < RankKey(item)
                              \/ RankKey(items[j]) = RankKey(item) /\ j < i}) + 1
                     ELSE Cardinality({j \in group : j <= i})
            url   == Get(item, "url", <<>>)
        IN IF p > SiteCap THEN item
           ELSE IF SiteOf(item) = "arxiv.org"
           THEN IF Truthy(url) /\ Contains(url, "arxiv.org")
                   /\ extract_arxiv_id(url) # NoneVal
                THEN EnrichOne(item, extract_arxiv_id(url), net[p])
                ELSE item
           ELSE IF /\ SiteOf(item) = "organizations"
                   /\ \E k \in 1..Len(all_orgs) :
                          all_orgs[k] = Get(item, "organization", "Unknown")
           THEN Put(item, "organization", Get(item, "organization", "Unknown"))
           ELSE item]

-----------------------------------------------------------------------------
(* Calendar.  A date is a day number; day 0 is Monday 2025-01-06.          *)
(* isoformat() / strftime("%Y-%m-%d") give the text of a date: the tokens  *)
(* year, "-", month, "-", day, with month and day zero-padded.             *)

DayMin == -36     \* 2024-12-01
DayMax == 84      \* 2025-03-31

\* the year, month and day of a date
YearMonthDay(n) ==
    LET off == n + 5    \* days since 2025-01-01
    IN CASE off < 0  -> <<2024, 12, 32 + off>>
         [] off < 31 -> <<2025, 1, off + 1>>
         [] off < 59 -> <<2025, 2, off - 30>>
         [] OTHER    -> <<2025, 3, off - 58>>

\* %m, %d on output: two digits
TwoDigits ==
    <<"01", "02", "03", "04", "05", "06", "07", "08", "09", "10",
      "11", "12", "13", "14", "15", "16", "17", "18", "19", "20",
      "21", "22", "23", "24", "25", "26", "27", "28", "29", "30", "31">>

OneDigit == <<"1", "2", "3", "4", "5", "6", "7", "8", "9">>

\* %Y: four digits
FourDigits(y) == CASE y = 2024 -> "2024" [] y = 2025 -> "2025" [] OTHER -> "????"

IsoFormat(n) ==
    LET ymd == YearMonthDay(n)
    IN <<FourDigits(ymd[1]), "-", TwoDigits[ymd[2]], "-", TwoDigits[ymd[3]]>>

\* %m, %d on input: a number up to `most`, written with one or two digits
\* (0 when the token is no such number)
ParseUpTo(tok, most) ==
    IF \E i \in 1..most : TwoDigits[i] = tok
    THEN CHOOSE i \in 1..most : TwoDigits[i] = tok
    ELSE IF \E i \in 1..Len(OneDigit) : OneDigit[i] = tok
    THEN CHOOSE i \in 1..Len(OneDigit) : OneDigit[i] = tok
    ELSE 0

\* %Y on input: exactly four digits (0 when the token is not a year)
ParseYear(tok) == CASE tok = "2024" -> 2024 [] tok = "2025" -> 2025 [] OTHER -> 0

\* datetime.strptime(text, "%Y-%m-%d").date(); BadDate for ValueError
StrpTime(text) ==
    IF Len(text) = 5 /\ text[2] = "-" /\ text[4] = "-"
    THEN LET ymd == <<ParseYear(text[1]), ParseUpTo(text[3], 12), ParseUpTo(text[5], 31)>>
         IN IF \E n \in DayMin..DayMax : YearMonthDay(n) = ymd
            THEN CHOOSE n \in DayMin..DayMax : YearMonthDay(n) = ymd
            ELSE BadDate
    ELSE BadDate

\* date.weekday(): 0 = Monday ... 6 = Sunday
Weekday(n) == n % 7

\* mutant: the week is taken to start on Sunday
get_week_start_FromSunday(date) ==
    LET days_since_sunday == Weekday(date + 1)
    IN date - days_since_sunday

\* run_daily.get_week_start
get_week_start(date) ==
    LET days_since_monday == Weekday(date)
    IN date - days_since_monday

\* backfill_weeks.get_week_start
backfill_get_week_start(d) == d - Weekday(d)

\* refresh_weeks.get_week_start
refresh_get_week_start(d) == d - Weekday(d)

\* app.get_week_start
app_get_week_start(date) ==
    LET days_since_monday == Weekday(date)
    IN date - days_since_monday

-----------------------------------------------------------------------------
(* storage.py: one file per week in data/weeks, one per day in data *)

\* _get_week_filepath / _get_daily_filepath: the file name of a date
FileKey(date) == Append(IsoFormat(date), ".json")

SaveResults_KeepExisting(store, date, results) ==
    IF FileKey(date) \in DOMAIN store THEN store
    ELSE [k \in DOMAIN store \cup {FileKey(date)} |->
             IF k = FileKey(date) THEN results ELSE store[k]]

\* save_week_results, save_daily_results: open(filepath, "w"); json.dump
SaveResults(store, date, results) ==
    [k \in DOMAIN store \cup {FileKey(date)} |->
        IF k = FileKey(date) THEN results ELSE store[k]]

\* load_week_results: <<>> for None, <<document>> otherwise
LoadResults(store, date) ==
    IF FileKey(date) \in DOMAIN store THEN <<store[FileKey(date)]>> ELSE <<>>

-----------------------------------------------------------------------------
(* The drivers.  search_all_sites is the machine of Spec; a driver sees    *)
(* only how it ends: it raises, or it returns all_results.                 *)

ArxivListItem == [title |-> <<"Robotics">>, link |-> UrlArxivList, snippet |-> <<"vla">>]

OneOf(S) == CHOOSE x \in S : TRUE

\* all_results of a run in which only Google answered, for zhihu.com and for
\* the first organization
FetchedWeb ==
    Stamp(google_site_search(Provider(<<OneOf(GoogleItems("zhihu.com"))>>, 0, "none"),
                             TRUE, "zhihu.com", max_results_per_site).results)
      \o TagOrganization(
             google_site_search(Provider(<<OneOf(GoogleItems(""))>>, 0, "none"),
                                TRUE, "", max_results_per_site).results,
             RESEARCH_ORGANIZATIONS[1])

\* all_results of a run in which the arXiv API gave nothing and Google gave a
\* listing page of arxiv.org
FetchedArxivPage ==
    Stamp(google_site_search(Provider(<<ArxivListItem>>, 0, "none"),
                             TRUE, "arxiv.org", max_results_per_site).results)

SearchReturns == {<<>>, FetchedWeb, FetchedArxivPage}

\* sum(len(site.get("items", [])) for site in sites)
RECURSIVE TotalItems(_)
TotalItems(sites) ==
    IF sites = <<>> THEN 0
    ELSE Len(Get(Head(sites), "items", <<>>)) + TotalItems(Tail(sites))

\* the test `existing and existing.get("sites")` ... `total_items > 0`
HasItems(existing) ==
    /\ existing # <<>>
    /\ DOMAIN existing[1] # {}
    /\ Get(existing[1], "sites", <<>>) # <<>>
    /\ TotalItems(Get(existing[1], "sites", <<>>)) > 0

RunOncePopulated_AnyFile(existing) == existing # <<>>

\* run_daily.py lines 57-62
RunOncePopulated(existing) == HasItems(existing)

BackfillPopulated_Never(existing) == FALSE

\* backfill_weeks.py lines 79-83 and 102-108
BackfillPopulated(existing) == HasItems(existing)

\* refresh_weeks.py lines 72-78 and 100-107
RefreshPopulated(existing) == HasItems(existing)

ShouldSave_Always(items) == TRUE

\* `if raw_items:`
ShouldSave(items) == items # <<>>

\* mutant: the window ends on the Sunday of the week
LogEntry_InclusiveEnd(ev, week_start) ==
    LET week_end == week_start + 6
    IN [ev |-> ev, week |-> week_start,
        after_date |-> IsoFormat(week_start), before_date |-> IsoFormat(week_end)]

\* an entry of run_log; a search is logged with the window it was given
LogEntry(ev, week_start) ==
    LET week_end == week_start + 6
    IN [ev |-> ev, week |-> week_start,
        after_date |-> IsoFormat(week_start), before_date |-> IsoFormat(week_end + 1)]

DriverIdle == dpc \in {"idle", "returned", "raised"}

\* a driver is invoked
Invoke(d, args, week_list) ==
    /\ DriverIdle
    /\ driver' = d
    /\ run_args' = args
    /\ run_today' = today
    /\ weeks' = week_list
    /\ raw_items' = <<>>
    /\ run_log' = <<>>
    /\ start_populated' =
           {k \in DOMAIN weeks_store : HasItems(<<weeks_store[k]>>)}
    /\ prev_target' = run_args.target
    /\ UNCHANGED <<weeks_store, daily_store, today>>

driverFrame == UNCHANGED <<orchVars, ad_call, storageVars, runs>>

\* the week has been dealt with: the loop goes to the next one or ends
NextWeek == IF Tail(weeks) = <<>> THEN "returned" ELSE "check"

\* the summary of one week: enrichment, grouping, and the date fields
WeekSummary(items, net, week_start) ==
    LET summary == simple_group_and_summarize(items, <<net>>, organizations,
                                              IsoFormat(today))
        week_end == week_start + 6
    IN Put(Put(Put(summary, "week_start", IsoFormat(week_start)),
               "week_end", IsoFormat(week_end)),
           "last_updated", IsoFormat(today))

\* time passes
Tick ==
    /\ today < LastDay
    /\ today' = today + 1
    /\ UNCHANGED <<weeks_store, daily_store, driver, dpc, run_args, run_today,
                   weeks, raw_items, run_log, start_populated, prev_target>>
    /\ driverFrame

(* run_daily.run_once *)

\* mutant: from Tuesday on the target is the week that holds today
RunOnceStart_CurrentWeek ==
    LET week_start == IF Weekday(today) = 0
                      THEN get_week_start(today) - 7
                      ELSE get_week_start(today)
    IN /\ Invoke("run_once",
                 [since |-> <<>>, max_weeks |-> 0, skip_if_all_exist |-> FALSE,
                  target |-> week_start],
                 <<week_start>>)
       /\ dpc' = "check"
       /\ driverFrame

\* lines 42-54
RunOnceStart ==
    LET week_start == IF Weekday(today) = 0
                      THEN get_week_start(today) - 7
                      ELSE LET current_week_start == get_week_start(today)
                           IN current_week_start - 7
    IN /\ Invoke("run_once",
                 [since |-> <<>>, max_weeks |-> 0, skip_if_all_exist |-> FALSE,
                  target |-> week_start],
                 <<week_start>>)
       /\ dpc' = "check"
       /\ driverFrame

\* lines 57-62
RunOnceCheck ==
    /\ driver = "run_once" /\ dpc = "check"
    /\ LET week_start == Head(weeks)
           existing == LoadResults(weeks_store, week_start)
       IN IF RunOncePopulated(existing)
          THEN /\ dpc' = "returned"
               /\ run_log' = Append(run_log, LogEntry("skip", week_start))
          ELSE /\ dpc' = "fetch"
               /\ UNCHANGED run_log
    /\ UNCHANGED <<weeks_store, daily_store, today, driver, run_args, run_today,
                   weeks, raw_items, start_populated, prev_target>>
    /\ driverFrame

\* lines 66-69: search_all_sites returns, or raises and ends run_once
RunOnceFetch ==
    /\ driver = "run_once" /\ dpc = "fetch"
    /\ \/ \E items \in SearchReturns :
              /\ raw_items' = items
              /\ dpc' = "save"
              /\ run_log' = Append(run_log, LogEntry("search", Head(weeks)))
       \/ /\ dpc' = "raised"
          /\ run_log' = Append(run_log, LogEntry("raise", Head(weeks)))
          /\ UNCHANGED raw_items
    /\ UNCHANGED <<weeks_store, daily_store, today, driver, run_args, run_today,
                   weeks, start_populated, prev_target>>
    /\ driverFrame

\* lines 71-87
RunOnceSave ==
    /\ driver = "run_once" /\ dpc = "save"
    /\ LET week_start == Head(weeks)
       IN IF ShouldSave(raw_items)
          THEN \E net \in EnrichOutcomes :
                   LET summary ==
                           Put(Put(WeekSummary(raw_items, net, week_start),
                                   "date", IsoFormat(run_today)),
                               "last_updated", IsoFormat(run_today))
                   IN /\ weeks_store' = SaveResults(weeks_store, week_start, summary)
                      /\ daily_store' = SaveResults(daily_store, run_today, summary)
                      /\ run_log' = Append(run_log, LogEntry("write", week_start))
          ELSE UNCHANGED <<weeks_store, daily_store, run_log>>
    /\ dpc' = "returned"
    /\ UNCHANGED <<today, driver, run_args, run_today, weeks, raw_items,
                   start_populated, prev_target>>
    /\ driverFrame

-----------------------------------------------------------------------------
(* backfill_weeks.main *)

WeekListCap == 1000

\* lines 70-74
RECURSIVE BackfillAllWeeks(_, _, _)
BackfillAllWeeks(w, current_week, all_weeks) ==
    IF w <= current_week /\ Len(all_weeks) < WeekListCap
    THEN BackfillAllWeeks(w + 7, current_week, Append(all_weeks, w))
    ELSE all_weeks

\* weeks[-n:]
LastN(s, n) == IF n >= Len(s) THEN s ELSE SubSeq(s, Len(s) - n + 1, Len(s))

\* lines 63-95
BackfillStart(since, max_weeks) ==
    LET since_date == StrpTime(since)
        since_week == backfill_get_week_start(since_date)
        current_week == backfill_get_week_start(today)
        all_weeks == BackfillAllWeeks(since_week, current_week, <<>>)
        empty_weeks == SelectSeq(all_weeks, LAMBDA week_start :
                           ~BackfillPopulated(LoadResults(weeks_store, week_start)))
        week_list == IF max_weeks > 0 THEN LastN(empty_weeks, max_weeks)
                     ELSE empty_weeks
    IN /\ Invoke("backfill",
                 [since |-> since, max_weeks |-> max_weeks,
                  skip_if_all_exist |-> FALSE, target |-> NoDate],
                 week_list)
       /\ dpc' = IF week_list # <<>> THEN "check" ELSE "returned"
       /\ driverFrame

\* lines 97-112
BackfillCheck ==
    /\ driver = "backfill" /\ dpc = "check"
    /\ LET week_start == Head(weeks)
           existing == LoadResults(weeks_store, week_start)
       IN IF BackfillPopulated(existing)
          THEN /\ dpc' = NextWeek
               /\ weeks' = Tail(weeks)
               /\ run_log' = Append(run_log, LogEntry("skip", week_start))
          ELSE /\ dpc' = "fetch"
               /\ UNCHANGED <<weeks, run_log>>
    /\ UNCHANGED <<weeks_store, daily_store, today, driver, run_args, run_today,
                   raw_items, start_populated, prev_target>>
    /\ driverFrame

\* lines 114-118: search_all_sites returns, or raises and ends main
BackfillFetch ==
    /\ driver = "backfill" /\ dpc = "fetch"
    /\ \/ \E items \in SearchReturns :
              /\ raw_items' = items
              /\ dpc' = "save"
              /\ run_log' = Append(run_log, LogEntry("search", Head(weeks)))
       \/ /\ dpc' = "raised"
          /\ run_log' = Append(run_log, LogEntry("raise", Head(weeks)))
          /\ UNCHANGED raw_items
    /\ UNCHANGED <<weeks_store, daily_store, today, driver, run_args, run_today,
                   weeks, start_populated, prev_target>>
    /\ driverFrame

\* lines 120-132
BackfillSave ==
    /\ driver = "backfill" /\ dpc = "save"
    /\ LET week_start == Head(weeks)
       IN IF ShouldSave(raw_items)
          THEN \E net \in EnrichOutcomes :
                   /\ weeks_store' = SaveResults(weeks_store, week_start,
                                          WeekSummary(raw_items, net, week_start))
                   /\ run_log' = Append(run_log, LogEntry("write", week_start))
          ELSE UNCHANGED <<weeks_store, run_log>>
    /\ dpc' = NextWeek
    /\ weeks' = Tail(weeks)
    /\ UNCHANGED <<daily_store, today, driver, run_args, run_today, raw_items,
                   start_populated, prev_target>>
    /\ driverFrame

-----------------------------------------------------------------------------
(* refresh_weeks.refresh_weeks_since *)

\* lines 56-60
RECURSIVE RefreshAllWeeks(_, _, _)
RefreshAllWeeks(w, current_week, all_weeks) ==
    IF w <= current_week /\ Len(all_weeks) < WeekListCap
    THEN RefreshAllWeeks(w + 7, current_week, Append(all_weeks, w))
    ELSE all_weeks

\* lines 50-93
RefreshStart(since_date, skip_if_all_exist) ==
    LET since_dt == StrpTime(since_date)
        since_week == refresh_get_week_start(since_dt)
        current_week == refresh_get_week_start(today)
        all_weeks == RefreshAllWeeks(since_week, current_week, <<>>)
        weeks_need_refresh ==
            SelectSeq(all_weeks, LAMBDA week_start :
                ~RefreshPopulated(LoadResults(weeks_store, week_start)))
        week_list == IF skip_if_all_exist /\ all_weeks # <<>>
                     THEN weeks_need_refresh ELSE all_weeks
    IN /\ Invoke("refresh",
                 [since |-> since_date, max_weeks |-> 0,
                  skip_if_all_exist |-> skip_if_all_exist, target |-> NoDate],
                 week_list)
       /\ dpc' = IF week_list # <<>> THEN "check" ELSE "returned"
       /\ driverFrame

\* lines 95-109
RefreshCheck ==
    /\ driver = "refresh" /\ dpc = "check"
    /\ LET week_start == Head(weeks)
           existing == LoadResults(weeks_store, week_start)
       IN IF RefreshPopulated(existing)
          THEN /\ dpc' = NextWeek
               /\ weeks' = Tail(weeks)
               /\ run_log' = Append(run_log, LogEntry("skip", week_start))
          ELSE /\ dpc' = "fetch"
               /\ UNCHANGED <<weeks, run_log>>
    /\ UNCHANGED <<weeks_store, daily_store, today, driver, run_args, run_today,
                   raw_items, start_populated, prev_target>>
    /\ driverFrame

\* lines 111-115: search_all_sites returns, or raises and ends the refresh
RefreshFetch ==
    /\ driver = "refresh" /\ dpc = "fetch"
    /\ \/ \E items \in SearchReturns :
              /\ raw_items' = items
              /\ dpc' = "save"
              /\ run_log' = Append(run_log, LogEntry("search", Head(weeks)))
       \/ /\ dpc' = "raised"
          /\ run_log' = Append(run_log, LogEntry("raise", Head(weeks)))
          /\ UNCHANGED raw_items
    /\ UNCHANGED <<weeks_store, daily_store, today, driver, run_args, run_today,
                   weeks, start_populated, prev_target>>
    /\ driverFrame

\* lines 117-131
RefreshSave ==
    /\ driver = "refresh" /\ dpc = "save"
    /\ LET week_start == Head(weeks)
       IN IF ShouldSave(raw_items)
          THEN \E net \in EnrichOutcomes :
                   /\ weeks_store' = SaveResults(weeks_store, week_start,
                                          WeekSummary(raw_items, net, week_start))
                   /\ run_log' = Append(run_log, LogEntry("write", week_start))
          ELSE UNCHANGED <<weeks_store, run_log>>
    /\ dpc' = NextWeek
    /\ weeks' = Tail(weeks)
    /\ UNCHANGED <<daily_store, today, driver, run_args, run_today, raw_items,
                   start_populated, prev_target>>
    /\ driverFrame

-----------------------------------------------------------------------------
(* The drivers invoked one after another on one archive *)

\* the --since arguments: Tuesday 2025-01-14, and a date in a week after
\* the last day of the clock
SinceArgs == {IsoFormat(8), IsoFormat(LastDay + 7)}
MaxWeeksArgs == {0, 1}

InitDriver ==
    /\ target_sites = TARGET_SITES
    /\ has_google = TRUE
    /\ organizations = Take(RESEARCH_ORGANIZATIONS, MaxOrgs)
    /\ pc = "site"
    /\ idx = 1
    /\ all_results = <<>>
    /\ google_rate_limited = FALSE
    /\ org_idx = 1
    /\ org_results = <<>>
    /\ org_rate_limited = FALSE
    /\ trace = <<>>
    /\ ad_call = <<>>
    /\ NoDriver

NextDriver ==
    \/ Tick
    \/ RunOnceStart
    \/ RunOnceCheck
    \/ RunOnceFetch
    \/ RunOnceSave
    \/ \E since \in SinceArgs, max_weeks \in MaxWeeksArgs : BackfillStart(since, max_weeks)
    \/ BackfillCheck
    \/ BackfillFetch
    \/ BackfillSave
    \/ \E since \in SinceArgs, skip \in BOOLEAN : RefreshStart(since, skip)
    \/ RefreshCheck
    \/ RefreshFetch
    \/ RefreshSave

SpecDriver == InitDriver /\ [][NextDriver]_vars

-----------------------------------------------------------------------------
(* storage.py call by call, on a directory data/weeks that may also hold   *)
(* files the tracker did not write.  save_week_results opens the file for  *)
(* writing, which empties it, then json.dump writes the document piece by  *)
(* piece; the process can be killed at any point in between.               *)

\* the file right after open(filepath, "w")
EmptyFile == [partial |-> <<>>]

\* the file while json.dump is writing `results`
HalfWritten(results) == [partial |-> <<results>>]

\* the file holds no complete JSON document
IsPartial(content) == "partial" \in DOMAIN content

\* a file somebody else put into data/weeks
ForeignFile == [foreign |-> TRUE]

ForeignNames ==
    {<<"notes", ".json">>,
     <<"2025", "-", "13", "-", "01", ".json">>,
     <<"2025", "-", "01", "-", "13", ".txt">>,
     <<"2025", "-", "1", "-", "13", ".json">>}

\* the weeks and the documents the calls are made with
StorageDates == {7, 14}
StorageDocs ==
    {simple_group_and_summarize(FetchedWeb, <<MetaOk>>,
                                Take(RESEARCH_ORGANIZATIONS, MaxOrgs), IsoFormat(FirstDay)),
     simple_group_and_summarize(FetchedArxivPage, <<MetaOk>>,
                                Take(RESEARCH_ORGANIZATIONS, MaxOrgs), IsoFormat(FirstDay))}

\* a file of `store` gets a new content
WriteFile(store, name, content) ==
    [k \in DOMAIN store \cup {name} |-> IF k = name THEN content ELSE store[k]]

storageFrame ==
    UNCHANGED <<orchVars, ad_call, daily_store, today, driver, dpc, run_args,
                run_today, weeks, raw_items, run_log, start_populated, prev_target,
                runs>>

\* save_week_results, line 54: open(filepath, "w")
SaveOpen(week_start, results) ==
    /\ save_pending = <<>>
    /\ save_pending' = <<[week_start |-> week_start, results |-> results]>>
    /\ weeks_store' = WriteFile(weeks_store, FileKey(week_start), EmptyFile)
    /\ written' = WriteFile(written, FileKey(week_start), <<>>)
    /\ UNCHANGED listing
    /\ storageFrame

\* save_week_results, line 55: json.dump has written a part of the document
SaveDump ==
    /\ save_pending # <<>>
    /\ weeks_store[FileKey(save_pending[1].week_start)] = EmptyFile
    /\ weeks_store' = WriteFile(weeks_store, FileKey(save_pending[1].week_start),
                                HalfWritten(save_pending[1].results))
    /\ UNCHANGED <<save_pending, written, listing>>
    /\ storageFrame

\* save_week_results returns: the file holds the whole document
SaveClose ==
    /\ save_pending # <<>>
    /\ weeks_store' = SaveResults(weeks_store, save_pending[1].week_start,
                                  save_pending[1].results)
    /\ written' = WriteFile(written, FileKey(save_pending[1].week_start),
                            <<save_pending[1].results>>)
    /\ save_pending' = <<>>
    /\ UNCHANGED listing
    /\ storageFrame

\* the process is killed inside save_week_results
Kill ==
    /\ save_pending # <<>>
    /\ save_pending' = <<>>
    /\ UNCHANGED <<weeks_store, written, listing>>
    /\ storageFrame

\* weeks.sort(key=lambda x: x["week_start"], reverse=True): a stable sort
RECURSIVE InsertWeek(_, _)
InsertWeek(sorted, week) ==
    IF sorted = <<>> THEN <<week>>
    ELSE IF sorted[Len(sorted)].week_start >= week.week_start
         THEN Append(sorted, week)
         ELSE Append(InsertWeek(SubSeq(sorted, 1, Len(sorted) - 1), week),
                     sorted[Len(sorted)])

RECURSIVE SortWeeks(_)
SortWeeks(week_list) ==
    IF week_list = <<>> THEN <<>>
    ELSE InsertWeek(SortWeeks(SubSeq(week_list, 1, Len(week_list) - 1)),
                    week_list[Len(week_list)])

\* lines 74-83: the loop over os.listdir(week_dir)
RECURSIVE ListedWeeks(_)
ListedWeeks(names) ==
    IF names = <<>> THEN <<>>
    ELSE LET name == Head(names)
             week_str == SubSeq(name, 1, Len(name) - 1)
         IN IF name[Len(name)] # ".json" THEN ListedWeeks(Tail(names))
            ELSE IF StrpTime(week_str) = BadDate THEN ListedWeeks(Tail(names))
            ELSE <<[week_key |-> week_str, week_start |-> StrpTime(week_str)]>>
                     \o ListedWeeks(Tail(names))

\* list_all_weeks(); `names` is os.listdir(week_dir)
list_all_weeks(names) == SortWeeks(ListedWeeks(names))

\* os.listdir gives the names in any order
RECURSIVE Orders(_)
Orders(S) ==
    IF S = {} THEN {<<>>}
    ELSE UNION {{<<x>> \o rest : rest \in Orders(S \ {x})} : x \in S}

ListDir(store) == Orders(DOMAIN store)

ListAllWeeks ==
    /\ save_pending = <<>>
    /\ \E names \in ListDir(weeks_store) :
           listing' = <<[names |-> DOMAIN weeks_store, weeks |-> list_all_weeks(names)]>>
    /\ UNCHANGED <<weeks_store, save_pending, written>>
    /\ storageFrame

InitStorage ==
    /\ InitDriver!1 /\ InitDriver!2 /\ InitDriver!3 /\ InitDriver!4
    /\ InitDriver!5 /\ InitDriver!6 /\ InitDriver!7 /\ InitDriver!8
    /\ InitDriver!9 /\ InitDriver!10 /\ InitDriver!11 /\ InitDriver!12
    /\ weeks_store \in {[name \in dir |-> ForeignFile] :
                           dir \in {d \in SUBSET ForeignNames : Cardinality(d) <= MaxForeign}}
    /\ daily_store = <<>>
    /\ today = FirstDay
    /\ driver = "none"
    /\ dpc = "idle"
    /\ run_args = [since |-> <<>>, max_weeks |-> 0, skip_if_all_exist |-> FALSE,
                   target |-> NoDate]
    /\ run_today = FirstDay
    /\ weeks = <<>>
    /\ raw_items = <<>>
    /\ run_log = <<>>
    /\ start_populated = {}
    /\ prev_target = NoDate
    /\ runs = <<>>
    /\ save_pending = <<>>
    /\ written = <<>>
    /\ listing = <<>>

NextStorage ==
    \/ \E week_start \in StorageDates, results \in StorageDocs :
           SaveOpen(week_start, results)
    \/ SaveDump
    \/ SaveClose
    \/ Kill
    \/ ListAllWeeks

SpecStorage == InitStorage /\ [][NextStorage]_vars

-----------------------------------------------------------------------------
(* One adapter call on its own: the adapter, what the provider does, and   *)
(* what the adapter returns or raises                                      *)

\* the i-th item a provider holds: `item` with i written into its name
Numbered(item, i) ==
    [f \in DOMAIN item |->
        IF f \in {"title", "full_name", "id"} THEN Append(item[f], ToString(i))
        ELSE item[f]]

Rep(item, n) == [i \in 1..n |-> Numbered(item, i)]

SampleItem(alphabet) == CHOOSE item \in alphabet : TRUE

\* a provider holding n copies of an item; it may fail at the first or at
\* the second request
AdapterProviders(alphabet) ==
    {Provider(Rep(SampleItem(alphabet), n), 0, "none") : n \in 0..MaxHeld}
        \cup {Provider(Rep(SampleItem(alphabet), n), k, f) :
                 n \in {0, MaxHeld}, k \in 1..2, f \in Faults}

\* what a provider may hold besides well-formed items: items the adapter
\* skips, and items that lack a field the adapter reads
GoogleOddItems ==
    GoogleItems("zhihu.com")
        \cup {[title |-> <<"VLA">>, snippet |-> <<"robot">>]}

GithubOddItems ==
    GithubItems
        \cup {[full_name |-> <<"owner/", "Awesome", "-", "vla">>, name |-> <<"vla">>,
               description |-> <<"robot">>, html_url |-> UrlGithub],
              [full_name |-> <<"owner/", "vla">>, name |-> <<"vla">>,
               description |-> <<"robot">>]}

\* the window huggingface_search is called with: a Monday and the Monday
\* after it
HfWindow == [after_date |-> 0, before_date |-> 7]
HfAfter  == HfWindow.after_date
HfBefore == HfWindow.before_date

HuggingfaceOddItems ==
    {[id |-> <<"org/", "VLA", "-", "Robot">>, updatedAt |-> d] :
        d \in {HfAfter - 1, HfAfter, HfBefore - 1, HfBefore, HfBefore + 1,
               NoDate, BadDate}}
        \cup {[updatedAt |-> HfAfter]}

ArxivOddEntries ==
    ArxivEntrySet
        \cup {[id |-> UrlArxivAbs, summary |-> <<"abstract">>, published |-> 0]}

\* a provider holding a short list of such items, in any order
MixedProviders(alphabet) ==
    {Provider(items, 0, "none") : items \in SeqsUpTo(alphabet, MaxMixed)}

\* the max_results arguments tried: one item, one full page, more than a
\* page, and more than google_site_search accepts
MaxResultsArgs == {1, ItemsPerPage, ItemsPerPage + 1, GoogleMaxResults + 1}

CallRecord(adapter, prov, max_results, out) ==
    [adapter |-> adapter, prov |-> prov, max_results |-> max_results, out |-> out]

CallGoogle(prov, max_results) ==
    /\ ad_call = <<>>
    /\ ad_call' = <<CallRecord("google", prov, max_results,
                      google_site_search(prov, TRUE, "zhihu.com", max_results))>>
    /\ UNCHANGED <<orchVars, driverVars, storageVars>>

CallGithub(prov, max_results) ==
    /\ ad_call = <<>>
    /\ ad_call' = <<CallRecord("github", prov, max_results,
                      github_search(prov, max_results))>>
    /\ UNCHANGED <<orchVars, driverVars, storageVars>>

CallHuggingface(prov, max_results) ==
    /\ ad_call = <<>>
    /\ ad_call' = <<CallRecord("huggingface", prov, max_results,
                      huggingface_search(prov, max_results, HfAfter, HfBefore))>>
    /\ UNCHANGED <<orchVars, driverVars, storageVars>>

CallArxiv(prov, max_results) ==
    /\ ad_call = <<>>
    /\ ad_call' = <<CallRecord("arxiv", prov, max_results,
                      arxiv_search(prov, max_results))>>
    /\ UNCHANGED <<orchVars, driverVars, storageVars>>

InitAdapter ==
    /\ target_sites = TARGET_SITES
    /\ has_google = TRUE
    /\ organizations = Take(RESEARCH_ORGANIZATIONS, MaxOrgs)
    /\ pc = "site"
    /\ idx = 1
    /\ all_results = <<>>
    /\ google_rate_limited = FALSE
    /\ org_idx = 1
    /\ org_results = <<>>
    /\ org_rate_limited = FALSE
    /\ trace = <<>>
    /\ ad_call = <<>>
    /\ NoDriver

NextAdapter ==
    \E max_results \in MaxResultsArgs :
        \/ \E prov \in AdapterProviders(GoogleItems("zhihu.com"))
                          \cup MixedProviders(GoogleOddItems) :
               CallGoogle(prov, max_results)
        \/ \E prov \in AdapterProviders(GithubItems)
                          \cup MixedProviders(GithubOddItems) :
               CallGithub(prov, max_results)
        \/ \E prov \in AdapterProviders(HuggingfaceItems)
                          \cup MixedProviders(HuggingfaceOddItems) :
               CallHuggingface(prov, max_results)
        \/ \E prov \in AdapterProviders(ArxivEntrySet)
                          \cup MixedProviders(ArxivOddEntries) :
               CallArxiv(prov, max_results)

SpecAdapter == InitAdapter /\ [][NextAdapter]_vars

\* the provider's rate-limit signal: HTTP 429, and for GitHub also 403 with
\* X-RateLimit-Remaining "0"
IsRateLimitSignal(adapter, fault) ==
    fault = "429" \/ (adapter = "github" /\ fault = "403_rl0")

\* every other non-2xx status and every transport error
IsUnavailableSignal(adapter, fault) ==
    /\ fault \in {"403_rl0", "403", "500", "transport", "transport_rl"}
    /\ ~IsRateLimitSignal(adapter, fault)

\* C5: every adapter raises RateLimitError exactly when the provider gave
\* HTTP 429 or its own rate-limit signal, and raises plain SearchError for
\* every other non-2xx status and every transport error (stated for a
\* failure of the first request, which every call issues).
C5_UniformClassification ==
    \A i \in 1..Len(ad_call) :
        LET c == ad_call[i]
            failed_first == c.prov.fault_at = 1
        IN /\ c.out.kind = "RateLimitError" <=>
                  (failed_first /\ IsRateLimitSignal(c.adapter, c.prov.fault))
           /\ (failed_first /\ IsUnavailableSignal(c.adapter, c.prov.fault))
                  => c.out.kind = "SearchError"

-----------------------------------------------------------------------------
(* Properties of search_all_sites *)

IsCall(i)       == trace[i].kind = "call"
IsGoogleCall(i) == IsCall(i) /\ trace[i].adapter = "google"
IsSiteCall(i)   == IsCall(i) /\ trace[i].pass = "site"

\* a Google request made for a site raised RateLimitError
GoogleRateLimitedAt(i) ==
    IsGoogleCall(i) /\ IsSiteCall(i) /\ trace[i].out = "RateLimitError"

\* C1: once a Google request made for a site has raised RateLimitError, no
\* Google request follows it in the run (neither for a later site nor for an
\* organization) and the organization pass is not entered.
C1_NoGoogleAfterRateLimit ==
    \A i \in 1..Len(trace) :
        GoogleRateLimitedAt(i) =>
            /\ \A j \in (i + 1)..Len(trace) : ~IsGoogleCall(j)
            /\ pc # "org"
            /\ google_rate_limited

\* the run is over, Google was rate-limited on the arxiv.org fallback, and the
\* later Google site zhihu.com was passed without a call
C1_Witness ==
    /\ pc = "returned"
    /\ target_sites = <<"arxiv.org", "zhihu.com">>
    /\ \E i \in 1..Len(trace) : GoogleRateLimitedAt(i) /\ trace[i].site = "arxiv.org"

\* C2: whatever the sources answer, search_all_sites returns normally: no
\* failure of a source propagates to the caller.
C2_NeverRaises == pc # "raised"

ArxivFailedAt(i) ==
    /\ IsCall(i) /\ trace[i].adapter = "arxiv"
    /\ trace[i].out \in {"RateLimitError", "SearchError"}

GoogleOkFor(i, site) ==
    IsGoogleCall(i) /\ IsSiteCall(i) /\ trace[i].site = site /\ trace[i].out = "ok"

InAllResults(r) == \E m \in 1..Len(all_results) : all_results[m] = r

\* C3: when arxiv_search failed (RateLimitError or SearchError) and the Google
\* call for arxiv.org that follows succeeded, every record Google returned is
\* in all_results (stamped with fetched_at), and the failure is not raised:
\* if the run raises at all, it is a later Google call that raised, and with
\* arxiv.org the last site the run returns normally.
C3_ArxivFallback ==
    \A i \in 1..(Len(trace) - 1) :
        (ArxivFailedAt(i) /\ GoogleOkFor(i + 1, "arxiv.org")) =>
            /\ \A k \in 1..Len(trace[i + 1].results) :
                   InAllResults(Put(trace[i + 1].results[k], "fetched_at", "now"))
            /\ pc = "raised" =>
                   /\ Len(trace) > i + 1
                   /\ trace[Len(trace)].out = "Exception"
                   /\ target_sites[Len(target_sites)] # "arxiv.org"

C3_Witness ==
    /\ pc = "returned"
    /\ \E i \in 1..(Len(trace) - 1) :
          /\ ArxivFailedAt(i) /\ GoogleOkFor(i + 1, "arxiv.org")
          /\ trace[i + 1].results # <<>>

\* C4 as claimed: once an adapter call for a source has returned without
\* raising (an empty list included), no other adapter call is made for that
\* source.
C4_StopAtFirstReturn ==
    \A i \in 1..Len(trace) : \A j \in (i + 1)..Len(trace) :
        (IsSiteCall(i) /\ trace[i].out = "ok" /\ IsSiteCall(j))
            => trace[j].site # trace[i].site

\* the adapter each source starts with
FirstAdapter(site) ==
    CASE site = "arxiv.org" -> "arxiv"
      [] site = "github.com" -> "github"
      [] site = "huggingface.co" -> "huggingface"
      [] OTHER -> "google"

\* C4 as amended: the first call for a source goes to its first adapter; a
\* second call for the same source is made only for arxiv.org, goes to Google
\* right after arxiv_search, and only when arxiv_search raised or returned an
\* empty list: after a non-empty list no other adapter is called.
C4_StopAtFirstNonEmpty ==
    \A j \in 1..Len(trace) :
        IsSiteCall(j) =>
            IF \E i \in 1..(j - 1) : IsSiteCall(i) /\ trace[i].site = trace[j].site
            THEN /\ trace[j].site = "arxiv.org" /\ trace[j].adapter = "google"
                 /\ trace[j - 1].adapter = "arxiv" /\ IsSiteCall(j - 1)
                 /\ trace[j - 1].results = <<>>
                 /\ \A i \in 1..(j - 2) :
                        ~(IsSiteCall(i) /\ trace[i].site = "arxiv.org")
            ELSE trace[j].adapter = FirstAdapter(trace[j].site)

\* arxiv_search returned records, Google was available, the run is over
C4_Witness ==
    /\ pc = "returned" /\ has_google /\ ~google_rate_limited
    /\ \E i \in 1..Len(trace) :
          /\ IsCall(i) /\ trace[i].adapter = "arxiv"
          /\ trace[i].out = "ok" /\ trace[i].results # <<>>

-----------------------------------------------------------------------------
(* Properties of the drivers, stated on SpecDriver *)

\* the invocation ended, by returning or by an exception
RunOver == dpc \in {"returned", "raised"}

\* search_all_sites was called for week w in this invocation
SearchedWeek(w) ==
    \E i \in 1..Len(run_log) :
        run_log[i].ev \in {"search", "raise"} /\ run_log[i].week = w

WroteWeek(w) ==
    \E i \in 1..Len(run_log) : run_log[i].ev = "write" /\ run_log[i].week = w

\* this invocation is run_once, so was the one before it, for the same week
SecondRunOnce == driver = "run_once" /\ prev_target = run_args.target

\* C6 as claimed: in the second of two successive run_once invocations for
\* the same target week, when no records are fetched, search_all_sites is not
\* called and nothing is written.
C6_SecondRunShortCircuits ==
    (SecondRunOnce /\ raw_items = <<>>) =>
        /\ ~SearchedWeek(run_args.target)
        /\ ~WroteWeek(run_args.target)

\* C6 as amended: in the second of two successive run_once invocations for
\* the same target week,
\*  - when the document the first left has at least one item, the second
\*    calls search_all_sites for no week and writes nothing;
\*  - when it has none (absent, or every block empty), the second does call
\*    search_all_sites again;
\*  - in both cases, unless records were fetched, every stored document
\*    stays exactly as the first invocation left it.
C6_IdempotentOncePopulated ==
    /\ [](SecondRunOnce =>
            IF FileKey(run_args.target) \in start_populated
            THEN \A i \in 1..Len(run_log) : run_log[i].ev = "skip"
            ELSE RunOver => SearchedWeek(run_args.target))
    /\ [][(SecondRunOnce
             /\ (FileKey(run_args.target) \in start_populated \/ raw_items = <<>>))
           => UNCHANGED <<weeks_store, daily_store>>]_vars

\* the second run_once found the week populated and returned at once
C6_Witness ==
    /\ SecondRunOnce /\ dpc = "returned"
    /\ FileKey(run_args.target) \in start_populated
    /\ Len(run_log) = 1 /\ run_log[1].ev = "skip"

WeeksSince(since, day) ==
    {w \in DayMin..DayMax :
        /\ Weekday(w) = 0
        /\ StrpTime(since) - Weekday(StrpTime(since)) <= w
        /\ w <= day - Weekday(day)}

\* C8 as claimed: a refresh_weeks_since that returned has called
\* search_all_sites for every week from the week of `since` through the
\* current week, the weeks that had items included.
C8_RefreshRunsEveryWeek ==
    (driver = "refresh" /\ dpc = "returned") =>
        \A w \in WeeksSince(run_args.since, run_today) : SearchedWeek(w)

\* C9 as claimed: a backfill without --max-weeks that is over has called
\* search_all_sites for exactly the weeks from the week of `since` through
\* the current week that had no items when it started.
C9_BackfillRunsEveryEmptyWeek ==
    (driver = "backfill" /\ run_args.max_weeks = 0 /\ RunOver) =>
        \A w \in DayMin..DayMax :
            SearchedWeek(w) <=>
                /\ w \in WeeksSince(run_args.since, run_today)
                /\ FileKey(w) \notin start_populated

\* C10: the step that follows a search which returned no records writes
\* neither a weekly nor a daily document, does not raise, and leaves the
\* week without items.
C10_NothingFetchedNothingWritten ==
    [][(dpc = "save" /\ raw_items = <<>>) =>
          /\ UNCHANGED <<weeks_store, daily_store>>
          /\ dpc' # "raised"
          /\ ~HasItems(LoadResults(weeks_store', Head(weeks)))]_vars

\* a driver searched a week, got nothing, and returned
C10_Witness ==
    /\ dpc = "returned" /\ raw_items = <<>>
    /\ run_log # <<>> /\ run_log[Len(run_log)].ev = "search"
    /\ ~HasItems(LoadResults(weeks_store, run_log[Len(run_log)].week))

-----------------------------------------------------------------------------
(* Properties of storage.py, stated on SpecStorage *)

\* C11 as claimed: at every point, also inside save_week_results and after
\* the process was killed there, every file of data/weeks holds a complete
\* document.
C11_NoPartialWrite ==
    \A name \in DOMAIN weeks_store : ~IsPartial(weeks_store[name])

\* the name of the file a save_week_results call in progress writes to
PendingName(pending) ==
    IF pending = <<>> THEN <<>> ELSE FileKey(pending[1].week_start)

\* C12: after save_week_results(k, s) returned, load_week_results(k) gives s
\* and nothing else, whatever the file held before; a key no save was ever
\* started for loads as absent; and a step of save_week_results changes no
\* file but the one of its key.
C12_SaveOverwrites ==
    /\ [](\A week_start \in StorageDates :
            LET name == FileKey(week_start)
            IN IF name \in DOMAIN written
               THEN written[name] # <<>> =>
                        LoadResults(weeks_store, week_start) = written[name]
               ELSE LoadResults(weeks_store, week_start) = <<>>)
    /\ [][\A name \in DOMAIN weeks_store :
              (name # PendingName(save_pending) /\ name # PendingName(save_pending'))
                  => (name \in DOMAIN weeks_store'
                        /\ weeks_store'[name] = weeks_store[name])]_vars

\* both weeks were saved, with different documents, next to a foreign file
C12_Witness ==
    /\ save_pending = <<>>
    /\ \A week_start \in StorageDates :
          /\ FileKey(week_start) \in DOMAIN written
          /\ written[FileKey(week_start)] # <<>>
    /\ \E d1, d2 \in StorageDates : written[FileKey(d1)] # written[FileKey(d2)]
    /\ \E name \in DOMAIN weeks_store : weeks_store[name] = ForeignFile

\* C13 as claimed: list_all_weeks lists every stored week key exactly once,
\* in strictly descending order of date, and lists nothing whose name is not
\* a date written YYYY-MM-DD.
C13_ListsValidKeysDescending ==
    listing # <<>> =>
        LET names == listing[1].names
            week_list == listing[1].weeks
        IN /\ \A i, j \in 1..Len(week_list) :
                  i < j => week_list[i].week_start > week_list[j].week_start
           /\ \A d \in DayMin..DayMax :
                  FileKey(d) \in names =>
                      Cardinality({i \in 1..Len(week_list) :
                                      week_list[i].week_key = IsoFormat(d)}) = 1
           /\ \A i \in 1..Len(week_list) :
                  \E d \in DayMin..DayMax : week_list[i].week_key = IsoFormat(d)

-----------------------------------------------------------------------------
(* Properties of the adapters, stated on SpecAdapter *)

\* a google_site_search call that the provider answered without a fault
GoogleAnswered(c) == c.adapter = "google" /\ c.prov.fault_at = 0

\* the requests of a call ask for consecutive pages of at most ItemsPerPage
\* items, and none follows an empty page or a page shorter than asked for
PagedInOrder(requests) ==
    /\ \A i \in 1..Len(requests) :
          /\ requests[i].start = (i - 1) * ItemsPerPage + 1
          /\ requests[i].num \in 1..ItemsPerPage
    /\ \A i \in 1..(Len(requests) - 1) :
          requests[i].got = requests[i].num

\* C14 as claimed: for every max_results and every number of held items,
\* google_site_search pages in order, stops at exhaustion, and returns
\* exactly min(max_results, held) records.
C14_ReturnsMinOfMaxAndHeld ==
    \A k \in 1..Len(ad_call) :
        LET c == ad_call[k]
        IN GoogleAnswered(c) =>
              /\ c.out.kind = "ok"
              /\ PagedInOrder(c.out.requests)
              /\ Len(c.out.results) = Min(c.max_results, Len(c.prov.items))

\* C14 as amended: max_results counts up to GoogleMaxResults only.  The call
\* pages in order, stops at exhaustion, and returns the first
\* min(max_results, GoogleMaxResults, held) items the provider holds, having
\* asked for exactly that many when the provider holds more.
C14_PagesUpToCap ==
    \A k \in 1..Len(ad_call) :
        LET c == ad_call[k]
            wanted == Min(Min(c.max_results, GoogleMaxResults), Len(c.prov.items))
        IN GoogleAnswered(c) =>
              /\ c.out.kind = "ok"
              /\ PagedInOrder(c.out.requests)
              /\ Len(c.out.results) = wanted
              /\ \A i \in 1..wanted :
                     c.out.results[i].title = c.prov.items[i].title
              /\ (c.out.requests # <<>>
                    /\ c.out.requests[Len(c.out.requests)].got
                          = c.out.requests[Len(c.out.requests)].num)
                   => Len(c.out.results) = Min(c.max_results, GoogleMaxResults)

\* eleven were asked for and eleven held: a full page and a page of one
C14_Witness ==
    \E k \in 1..Len(ad_call) :
        /\ GoogleAnswered(ad_call[k])
        /\ ad_call[k].max_results = ItemsPerPage + 1
        /\ Len(ad_call[k].out.requests) = 2
        /\ Len(ad_call[k].out.results) = ItemsPerPage + 1

-----------------------------------------------------------------------------
(* Properties of the records an adapter returns *)

AdapterReturned == ad_call # <<>> /\ ad_call[1].out.kind = "ok"

\* C15: for every adapter call the i-th record returned has rank = i: the
\* ranks are 1..n without gap or repetition, also when the adapter skipped
\* items of the provider or fetched several pages.
C15_RankIsPosition ==
    AdapterReturned =>
        \A i \in 1..Len(ad_call[1].out.results) : ad_call[1].out.results[i].rank = i

\* github_search returned a record that followed a filtered repository in
\* the provider's list
C15_Witness ==
    /\ AdapterReturned
    /\ ad_call[1].adapter = "github"
    /\ Len(ad_call[1].prov.items) >= 2
    /\ ShouldFilter(ad_call[1].prov.items[1])
    /\ ad_call[1].out.results # <<>>

\* the values the `site` field of a record may take
KnownSites == {"zhihu.com", "github.com", "huggingface.co", "arxiv.org", "organizations"}

\* C16: every record an adapter returns has a non-empty url and a site among
\* zhihu.com, github.com, huggingface.co, arxiv.org and organizations,
\* whatever fields the provider's response contains or omits.
C16_UrlAndSiteWellFormed ==
    AdapterReturned =>
        \A i \in 1..Len(ad_call[1].out.results) :
            /\ Truthy(ad_call[1].out.results[i].url)
            /\ ad_call[1].out.results[i].site \in KnownSites

\* the update date huggingface_search reads from a model
HfDate(item) ==
    IF Get(item, "updatedAt", NoDate) # NoDate THEN item.updatedAt
    ELSE Get(item, "createdAt", NoDate)

\* what the half-open window keeps: a model with a parseable date inside
\* [after, before), and a model whose date is missing or does not parse
KeptByHalfOpenWindow(item) ==
    \/ HfDate(item) \in {NoDate, BadDate}
    \/ HfAfter <= HfDate(item) /\ HfDate(item) < HfBefore

\* C17: the client-side date filter of huggingface_search is the half-open
\* window [after, before): a model with a parseable update date is kept if and
\* only if after <= date < before, so a model dated exactly `before` is
\* excluded; a model with a missing or unparseable date is kept.  (Stated
\* for calls whose max_results does not cut the list.)
C17_HalfOpenWindow ==
    (/\ AdapterReturned
     /\ ad_call[1].adapter = "huggingface"
     /\ Len(ad_call[1].prov.items) <= ad_call[1].max_results)
        => LET named == SelectSeq(ad_call[1].prov.items,
                                  LAMBDA item : Truthy(Get(item, "id", <<>>)))
               kept  == SelectSeq(named, KeptByHalfOpenWindow)
               res   == ad_call[1].out.results
           IN [i \in 1..Len(res) |-> res[i].published]
                  = [i \in 1..Len(kept) |-> HfDate(kept[i])]

-----------------------------------------------------------------------------
(* Properties of the list search_all_sites returns *)

\* C18: every record search_all_sites returns carries fetched_at, whichever
\* adapter produced it (arXiv, GitHub, HuggingFace, Google for a site, or the
\* organization pass).
C18_EveryRecordStamped ==
    pc = "returned" =>
        \A i \in 1..Len(all_results) : "fetched_at" \in DOMAIN all_results[i]

IsOrgCall(i) == IsGoogleCall(i) /\ trace[i].pass = "org"

\* the Google request made for an organization raised RateLimitError
OrgRateLimitedAt(i) == IsOrgCall(i) /\ trace[i].out = "RateLimitError"

\* the records search_all_sites keeps of one adapter call that returned
Contributed(ev) ==
    CASE ev.kind # "call" \/ ev.out # "ok" -> <<>>
      [] ev.pass = "org" -> TagOrganization(ev.results, ev.site)
      [] ev.adapter = "google" -> Stamp(ev.results)
      [] ev.adapter = "huggingface" -> HfContentFilter(ev.results, max_results_per_site)
      [] OTHER -> ev.results

\* the records site by site in call order, then organization by organization
RECURSIVE Collected(_)
Collected(k) ==
    IF k = 0 THEN <<>> ELSE Collected(k - 1) \o Contributed(trace[k])

\* C19: a rate limit hit while querying organization k halts only the
\* remaining organizations: no Google request follows it, the run does not
\* raise, and when it has returned, all_results holds the records of every
\* per-site source and of the organizations before k.
C19_OrgRateLimitHaltsOnlyOrgs ==
    \A i \in 1..Len(trace) :
        OrgRateLimitedAt(i) =>
            /\ \A j \in (i + 1)..Len(trace) : ~IsGoogleCall(j)
            /\ pc \in {"org", "returned"}
            /\ pc = "returned" => all_results = Collected(i - 1)

\* the run has returned after a rate limit at the second of three
\* organizations; a site and the first organization had given a record
C19_Witness ==
    /\ pc = "returned"
    /\ Len(organizations) > 2
    /\ \E i \in 3..Len(trace) :
          /\ OrgRateLimitedAt(i) /\ trace[i].site = organizations[2]
          /\ IsOrgCall(i - 1) /\ trace[i - 1].results # <<>>
          /\ \E j \in 1..(i - 2) : IsSiteCall(j) /\ Contributed(trace[j]) # <<>>

-----------------------------------------------------------------------------
(* enrich_arxiv_items on its own: a list of records and what the network   *)
(* gives for each of them                                                  *)

UrlArxivPdf == <<"https://", "arxiv.org", "/pdf/", "d4", ".", "d4", ".pdf">>

\* the url fields tried: two paper pages, a category page of arxiv.org, a page
\* of another site, and the empty string
EnrichUrls == {UrlArxivAbs, UrlArxivPdf, UrlArxivList, UrlZhihu, <<>>}

\* the i-th record of the list; rank tells the records of a list apart
EnrichInput(url, i) ==
    [title |-> <<"1 Introduction">>, url |-> url, snippet |-> <<"vla">>,
     site |-> "arxiv.org", rank |-> i]

\* a record without the url field
EnrichInputNoUrl(i) ==
    [title |-> <<"1 Introduction">>, snippet |-> <<"vla">>,
     site |-> "arxiv.org", rank |-> i]

EnrichLists ==
    UNION {{[i \in 1..n |-> IF u[i] = NoneVal THEN EnrichInputNoUrl(i)
                            ELSE EnrichInput(u[i], i)] :
               u \in [1..n -> EnrichUrls \cup {NoneVal}]} : n \in 0..MaxEnrich}

CallEnrich(items, net) ==
    /\ ad_call = <<>>
    /\ ad_call' = <<[adapter |-> "enrich_arxiv_items", items |-> items, net |-> net,
                     out |-> enrich_arxiv_items(items, net),
                     events |-> EnrichEvents(items, net, Len(items))]>>
    /\ UNCHANGED <<orchVars, driverVars, storageVars>>

InitEnrich == InitAdapter

\* further answers of the network: the translator gives blank text, gives
\* None, or the metadata holds a title and no summary
MetaBlankTranslation ==
    [title |-> <<"Canonical", "title">>, abstract |-> <<"abstract">>,
     authors |-> <<"A. Author">>, tr |-> "ok", zh |-> <<" ", "\n">>]
MetaNoneTranslation ==
    [title |-> <<"Canonical", "title">>, abstract |-> <<"abstract">>,
     authors |-> <<>>, tr |-> "ok", zh |-> NoneVal]
MetaNoSummary ==
    [title |-> <<"Canonical", "title">>, abstract |-> NoneVal,
     authors |-> <<"A. Author">>, tr |-> "none", zh |-> NoneVal]

EnrichNets ==
    EnrichOutcomes \cup {MetaBlankTranslation, MetaNoneTranslation, MetaNoSummary}

\* the network is asked only for the records that have a paper id
NetsFor(items) ==
    {net \in [1..Len(items) -> EnrichNets] :
        \A k \in 1..Len(items) :
            extract_arxiv_id(Get(items[k], "url", <<>>)) = NoneVal
                => net[k] = MetaFailed}

NextEnrich ==
    \E items \in EnrichLists :
        \E net \in NetsFor(items) : CallEnrich(items, net)

SpecEnrich == InitEnrich /\ [][NextEnrich]_vars

Enriched == ad_call # <<>> /\ ad_call[1].adapter = "enrich_arxiv_items"

\* the url of a record matches one of the identifier shapes
HasPaperId(item) == extract_arxiv_id(Get(item, "url", <<>>)) # NoneVal

\* the url of a record is missing, empty, or does not name arxiv.org
NotOfArxiv(item) ==
    ~Truthy(Get(item, "url", <<>>)) \/ ~Contains(Get(item, "url", <<>>), "arxiv.org")

RanksOf(items) == [i \in 1..Len(items) |-> items[i].rank]

\* C20 as claimed: enrich_arxiv_items drops every record whose url does not
\* match an identifier shape, a record with an empty url or a url without
\* arxiv.org included, and returns every record whose url matches exactly
\* once, in input order.
C20_OnlyPapersKept ==
    Enriched =>
        RanksOf(ad_call[1].out) = RanksOf(SelectSeq(ad_call[1].items, HasPaperId))

\* C20, amended: enrich_arxiv_items drops every record whose url names
\* arxiv.org and does not match an identifier shape; a record whose url is
\* missing, empty or does not contain arxiv.org is returned unchanged; every
\* record whose url matches is returned with its arxiv_id; the records
\* returned appear exactly once, in input order.
C20_PagesOfArxivDropped ==
    Enriched =>
        LET items == ad_call[1].items
            out   == ad_call[1].out
            kept  == SelectSeq(items, LAMBDA item : HasPaperId(item) \/ NotOfArxiv(item))
        IN /\ RanksOf(out) = RanksOf(kept)
           /\ \A i \in 1..Len(out) :
                  IF NotOfArxiv(kept[i]) THEN out[i] = kept[i]
                  ELSE Get(out[i], "arxiv_id", NoneVal)
                           = extract_arxiv_id(Get(kept[i], "url", <<>>))

\* a list with a category page, a paper and a record with an empty url:
\* the first was dropped, the other two returned
C20_Witness ==
    /\ Enriched
    /\ Len(ad_call[1].items) = 3
    /\ Get(ad_call[1].items[1], "url", NoneVal) = UrlArxivList
    /\ Get(ad_call[1].items[2], "url", NoneVal) = UrlArxivAbs
    /\ Get(ad_call[1].items[3], "url", NoneVal) = <<>>
    /\ RanksOf(ad_call[1].out) = <<2, 3>>

\* the record returned for the k-th input record (ranks tell them apart)
Returned(k) ==
    LET out == ad_call[1].out
    IN out[CHOOSE i \in 1..Len(out) : out[i].rank = k]

\* the network was asked about the k-th record: its url holds a paper id
Asked(k) == k \in 1..Len(ad_call[1].items) /\ HasPaperId(ad_call[1].items[k])

\* the translator returned text that is not blank
TranslationSucceeded(net) ==
    net.tr = "ok" /\ net.zh # NoneVal /\ net.zh # <<>> /\ ~IsBlank(net.zh)

\* C21: translation failure is non-fatal.  For every record for which an
\* abstract was obtained, after enrichment `abstract` is that abstract and
\* `abstract_zh` is non-empty: the translation when the translator gave
\* non-blank text, the original abstract when it failed, gave blank text or
\* raised.
C21_TranslationFallback ==
    Enriched =>
        \A k \in 1..Len(ad_call[1].items) :
            (Asked(k) /\ Truthy(ad_call[1].net[k].abstract)) =>
                LET net == ad_call[1].net[k]
                    rec == Returned(k)
                IN /\ rec.abstract = net.abstract
                   /\ rec.abstract_zh # <<>> /\ rec.abstract_zh # NoneVal
                   /\ rec.abstract_zh = IF TranslationSucceeded(net) THEN net.zh
                                        ELSE net.abstract

\* one call met a successful translation, a blank one and a translator
\* that raised
C21_Witness ==
    /\ Enriched
    /\ Len(ad_call[1].items) = 3
    /\ \A k \in 1..3 : Asked(k)
    /\ ad_call[1].net = <<MetaOk, MetaBlankTranslation, MetaNoTranslation>>
    /\ Returned(1).abstract_zh = MetaOk.zh
    /\ Returned(2).abstract_zh = MetaBlankTranslation.abstract

\* a field holds no text: it is missing, None or the empty string
NoText(rec, field) == ~Truthy(Get(rec, field, NoneVal))

\* C22: a preprint record whose metadata resolution fails is still in the
\* output with the title and url the provider supplied, and its abstract and
\* abstract_zh are both without text or both the untranslated abstract.
C22_MetadataFailureKeepsRecord ==
    Enriched =>
        \A k \in 1..Len(ad_call[1].items) :
            (Asked(k) /\ ad_call[1].net[k] = MetaFailed) =>
                /\ \E i \in 1..Len(ad_call[1].out) : ad_call[1].out[i].rank = k
                /\ Returned(k).title = ad_call[1].items[k].title
                /\ Returned(k).url = ad_call[1].items[k].url
                /\ \/ NoText(Returned(k), "abstract") /\ NoText(Returned(k), "abstract_zh")
                   \/ /\ Returned(k).abstract = Returned(k).abstract_zh
                      /\ Returned(k).abstract = ad_call[1].net[k].abstract

\* the metadata of the second of two papers could not be resolved
C22_Witness ==
    /\ Enriched
    /\ Len(ad_call[1].items) = 2
    /\ Asked(1) /\ Asked(2)
    /\ ad_call[1].net = <<MetaOk, MetaFailed>>
    /\ Len(ad_call[1].out) = 2

-----------------------------------------------------------------------------
(* simple_group_and_summarize on its own: a list of records in, a Weekly   *)
(* Summary out                                                             *)

\* a record of a site; the title tells records of equal rank apart
SiteRecord(site, name, rank) ==
    [title |-> <<name>>, url |-> <<"https://", site, "/", name>>,
     snippet |-> <<"vla">>, site |-> site, rank |-> rank]

\* a record of the organization pass
OrgRecord(org, name, rank) ==
    [title |-> <<name>>, url |-> UrlOrgNews, snippet |-> <<"robot">>,
     site |-> "organizations", organization |-> org, rank |-> rank]

\* the records short lists are made of: a paper and a category page of
\* arxiv.org, repositories with ranks 1, 2, 2 and without rank, a site that
\* is not a target site, a record without site, and records of two
\* configured organizations, of one that is not configured and of none
SummaryRecords ==
    {[title |-> <<"paper">>, url |-> UrlArxivAbs, snippet |-> <<"vla">>,
      site |-> "arxiv.org", rank |-> 1],
     [title |-> <<"page">>, url |-> UrlArxivList, snippet |-> <<"vla">>,
      site |-> "arxiv.org", rank |-> 2],
     SiteRecord("github.com", "a", 1),
     SiteRecord("github.com", "b", 2),
     SiteRecord("github.com", "c", 2),
     [title |-> <<"d">>, url |-> UrlGithub, site |-> "github.com"],
     SiteRecord("example.com", "e", 1),
     [title |-> <<"f">>, url |-> UrlOrgNews, rank |-> 1],
     OrgRecord("NVIDIA", "n", 2),
     OrgRecord("Meta", "m", 1),
     OrgRecord("Other Lab", "o", 1),
     [title |-> <<"p">>, url |-> UrlOrgNews, site |-> "organizations", rank |-> 1]}

\* n records of a site in descending rank order: ranks n, n - 1, ..., 1
Descending(site, n) ==
    [i \in 1..n |-> SiteRecord(site, ToString(n + 1 - i), n + 1 - i)]

\* what the organization pass returns when every organization gave m records
RECURSIVE OrgPassRecords(_, _, _)
OrgPassRecords(all_orgs, k, m) ==
    IF k = 0 THEN <<>>
    ELSE OrgPassRecords(all_orgs, k - 1, m)
             \o [i \in 1..m |-> OrgRecord(all_orgs[k], ToString(i), i)]

\* long lists: a site with as many records as the cap and with one more, and
\* organizations that together stay below, reach and pass their cap
LongLists ==
    {Descending(site, n) \o OrgPassRecords(RESEARCH_ORGANIZATIONS,
                                           Len(RESEARCH_ORGANIZATIONS), m) :
        site \in {"github.com", "example.com"},
        n \in {SiteCap, SiteCap + 1},
        m \in {1, OrgCap \div Len(RESEARCH_ORGANIZATIONS),
               OrgCap \div Len(RESEARCH_ORGANIZATIONS) + 1, SiteCap + 1}}

SummaryLists == SeqsUpTo(SummaryRecords, MaxSummary) \cup LongLists

\* what the network gives the enrichment during one call: every request
\* answered, or every request failed
SummaryNets(items) ==
    {[k \in 1..Len(items) |-> answer] : answer \in {MetaOk, MetaFailed}}

CallSummarize(items, net) ==
    /\ ad_call = <<>>
    /\    ad_call' = <<[adapter |-> "simple_group_and_summarize", items |-> items,
                        net |-> net,
                        calls |-> SummarizeCalls(items, net),
                        items_after |-> InputAfter(items, net, RESEARCH_ORGANIZATIONS),
                        out |-> simple_group_and_summarize(
                                    items, net, RESEARCH_ORGANIZATIONS,
                                    IsoFormat(FirstDay))]>>
    /\ UNCHANGED <<orchVars, driverVars, storageVars>>

InitSummarize == InitAdapter

NextSummarize ==
    \E items \in SummaryLists : CallSummarize(items, [k \in 1..Len(items) |-> MetaOk])

SpecSummarize == InitSummarize /\ [][NextSummarize]_vars

Summarized == ad_call # <<>> /\ ad_call[1].adapter = "simple_group_and_summarize"

\* the blocks of the Weekly Summary, and its block for a site
Blocks == ad_call[1].out.sites
BlockOf(site) == Blocks[CHOOSE k \in 1..Len(Blocks) : Blocks[k].site = site]
HasBlock(site) == \E k \in 1..Len(Blocks) : Blocks[k].site = site

\* the input records of a site, in arrival order
InputOf(site) ==
    SelectSeq(ad_call[1].items,
              LAMBDA it : SiteOf(it) = site /\ SiteOf(it) # "organizations")

UrlsOf(items) == [i \in 1..Len(items) |-> Get(items[i], "url", NoneVal)]

WithRank(items, r) == SelectSeq(items, LAMBDA it : Get(it, "rank", NoneVal) = r)

IsPrefix(s, t) == Len(s) <= Len(t) /\ s = SubSeq(t, 1, Len(s))

\* the records enrich_arxiv_items does not drop
Survives(site, it) == site # "arxiv.org" \/ HasPaperId(it) \/ NotOfArxiv(it)

RECURSIVE TotalShown(_)
TotalShown(k) == IF k = 0 THEN 0 ELSE TotalShown(k - 1) + Len(Blocks[k].items)

InBlock(block, it) ==
    \E i \in 1..Len(block.items) : block.items[i].url = Get(it, "url", NoneVal)

\* C24: every block other than the organization block has at most 30 items,
\* the 30 first of its group after sorting (min(30, n) of a group of n
\* records outside arxiv.org, and no record left out has a smaller rank than
\* one shown), the organization block has at most 100, and the blocks
\* together hold at most 30 * (number of other blocks) + 100 items.
C24_BlocksCapped ==
    Summarized =>
        /\ \A k \in 1..Len(Blocks) :
               LET block == Blocks[k]
                   input == InputOf(block.site)
               IN IF block.site = "organizations"
                  THEN Len(block.items) <= OrgCap
                  ELSE /\ Len(block.items) <= SiteCap
                       /\ block.site # "arxiv.org"
                              => Len(block.items) = Min(SiteCap, Len(input))
                       /\ (\A i \in 1..Len(input) : "rank" \in DOMAIN input[i])
                              => \A i \in 1..Len(input) :
                                     ~InBlock(block, input[i])
                                        => \A j \in 1..Len(block.items) :
                                               block.items[j].rank <= input[i].rank
        /\ TotalShown(Len(Blocks)) <= SiteCap * (Len(Blocks) - 1) + OrgCap

\* 31 repositories and 104 records of organizations came in; 30 and 100 are
\* shown
C24_Witness ==
    /\ Summarized
    /\ Len(InputOf("github.com")) = SiteCap + 1
    /\ Len(ad_call[1].items) > SiteCap + 1 + OrgCap
    /\ Len(BlockOf("github.com").items) = SiteCap
    /\ Len(BlockOf("organizations").items) = OrgCap

\* the organization-scoped input records, and the organization of one
OrgInput == SelectSeq(ad_call[1].items, LAMBDA it : SiteOf(it) = "organizations")
OrgName(it) == Get(it, "organization", "Unknown")

OrgsNamed ==
    {RESEARCH_ORGANIZATIONS[k] : k \in 1..Len(RESEARCH_ORGANIZATIONS)}
        \cup {OrgName(OrgInput[i]) : i \in 1..Len(OrgInput)}

RecordsOfOrg(org) == Len(SelectSeq(OrgInput, LAMBDA it : OrgName(it) = org))

Configured == {RESEARCH_ORGANIZATIONS[k] : k \in 1..Len(RESEARCH_ORGANIZATIONS)}

RECURSIVE KeptOfOrgs(_)
KeptOfOrgs(k) ==
    IF k = 0 THEN 0
    ELSE KeptOfOrgs(k - 1) + Min(SiteCap, RecordsOfOrg(RESEARCH_ORGANIZATIONS[k]))

AlwaysShown == {"arxiv.org", "github.com", "huggingface.co", "zhihu.com", "organizations"}

\* C26: for every input list, the empty one included, the Weekly Summary has
\* exactly one block for each of arxiv.org, github.com, huggingface.co,
\* zhihu.com and organizations; a block with no records has items = [] and
\* the zero-results message as its site_summary.
C26_AlwaysShownBlocks ==
    Summarized =>
        \A site \in AlwaysShown :
            /\ Cardinality({k \in 1..Len(Blocks) : Blocks[k].site = site}) = 1
            /\ (site # "organizations" /\ InputOf(site) = <<>>)
                   => BlockOf(site).items = <<>>
            /\ (site = "organizations" /\ OrgInput = <<>>)
                   => BlockOf(site).items = <<>>
            /\ BlockOf(site).items = <<>>
                   => BlockOf(site).site_summary = NoUpdateText(site)

\* the empty list gave the five blocks, all empty
C26_Witness ==
    /\ Summarized
    /\ ad_call[1].items = <<>>
    /\ Len(Blocks) = Cardinality(AlwaysShown)
    /\ \A k \in 1..Len(Blocks) : Blocks[k].items = <<>>

SitesShown == [k \in 1..Len(Blocks) |-> Blocks[k].site]

\* the sites of the model outside the fixed order, in alphabetical order
OthersAlphabetical ==
    (IF InputOf("example.com") # <<>> THEN <<"example.com">> ELSE <<>>)
        \o (IF InputOf("unknown") # <<>> THEN <<"unknown">> ELSE <<>>)

\* C27: the blocks of every Weekly Summary are in the order arxiv.org,
\* organizations, github.com, huggingface.co, zhihu.com, then all other
\* sites in ascending alphabetical order, whatever the order of the input.
C27_BlockOrder ==
    Summarized =>
        SitesShown = <<"arxiv.org", "organizations", "github.com", "huggingface.co",
                       "zhihu.com">> \o OthersAlphabetical

\* a record without site came before one of example.com: example.com is
\* shown first
C27_Witness ==
    /\ Summarized
    /\ Len(ad_call[1].items) = 2
    /\ SiteOf(ad_call[1].items[1]) = "unknown"
    /\ SiteOf(ad_call[1].items[2]) = "example.com"
    /\ SubSeq(SitesShown, 6, 7) = <<"example.com", "unknown">>

-----------------------------------------------------------------------------
(* get_week_start on its own: the four copies applied to one date *)

CallWeekStart(d) ==
    /\ ad_call = <<>>
    /\ ad_call' = <<[adapter |-> "get_week_start", date |-> d,
                     run_daily |-> get_week_start(d),
                     backfill_weeks |-> backfill_get_week_start(d),
                     refresh_weeks |-> refresh_get_week_start(d),
                     app |-> app_get_week_start(d)]>>
    /\ UNCHANGED <<orchVars, driverVars, storageVars>>

InitWeek == InitAdapter

NextWeekStart == \E d \in DayMin..DayMax : CallWeekStart(d)

SpecWeek == InitWeek /\ [][NextWeekStart]_vars

WeekCalled == ad_call # <<>> /\ ad_call[1].adapter = "get_week_start"

\* the text of Monday 2025-01-06 and of Sunday 2025-01-12
Text20250106 == <<"2025", "-", "01", "-", "06">>
Text20250112 == <<"2025", "-", "01", "-", "12">>

\* C28: for every date d, get_week_start(d) is a Monday W with
\* W <= d <= W + 6, every date from 2025-01-06 to 2025-01-12 gives
\* 2025-01-06, and the copies of get_week_start in run_daily, backfill_weeks,
\* refresh_weeks and app give the same W.
C28_WeekBucketing ==
    WeekCalled =>
        LET d == ad_call[1].date
            W == ad_call[1].run_daily
        IN /\ W % 7 = 0
           /\ W <= d /\ d <= W + 6
           /\ (IsoFormat(d)[1] = "2025" /\ IsoFormat(d)[3] = "01"
                  /\ IsoFormat(d)[5] \in {"06", "07", "08", "09", "10", "11", "12"})
                 => IsoFormat(W) = Text20250106
           /\ ad_call[1].backfill_weeks = W
           /\ ad_call[1].refresh_weeks = W
           /\ ad_call[1].app = W

\* Sunday 2025-01-12 was put into the week of 2025-01-06
C28_Witness ==
    /\ WeekCalled
    /\ IsoFormat(ad_call[1].date) = Text20250112
    /\ IsoFormat(ad_call[1].run_daily) = Text20250106

-----------------------------------------------------------------------------
(* Delays of search_all_sites and search_organizations *)

IsSleep(i) == trace[i].kind = "sleep"

\* trace[j] is the first adapter call after the call trace[i]
NextCall(i, j) ==
    /\ i < j /\ IsCall(i) /\ IsCall(j)
    /\ \A k \in (i + 1)..(j - 1) : ~IsCall(k)

SleepBetween(i, j) == \E k \in (i + 1)..(j - 1) : IsSleep(k)

\* C29: in search_all_sites there is a sleep between the last adapter
\* request made for one site and the first adapter request made for the next
\* site, whichever adapters the two sites use and however the first site
\* ended; there is no sleep after the final site.
C29_DelayBetweenSites ==
    /\ \A i \in 1..Len(trace), j \in 1..Len(trace) :
           (/\ NextCall(i, j)
            /\ IsSiteCall(i) /\ IsSiteCall(j)
            /\ trace[i].site # trace[j].site)
               => SleepBetween(i, j)
    /\ \A k \in 1..Len(trace) :
           IsSleep(k) => trace[k].site # target_sites[Len(target_sites)]

\* C30: in the organization pass there is a sleep between the Google
\* requests of every two consecutive organizations.
C30_DelayBetweenOrganizations ==
    \A i \in 1..Len(trace), j \in 1..Len(trace) :
        (NextCall(i, j) /\ IsOrgCall(i) /\ IsOrgCall(j)) => SleepBetween(i, j)

-----------------------------------------------------------------------------
(* Delays of enrich_arxiv_items *)

EnrichTrace == ad_call[1].events

IsDelay(e) == e.kind \in {"sleep1", "sleep3"}

\* events i < j are successive calls of one kind
SuccessiveCalls(kind, i, j) ==
    /\ i < j
    /\ EnrichTrace[i].kind = kind /\ EnrichTrace[j].kind = kind
    /\ \A n \in (i + 1)..(j - 1) : EnrichTrace[n].kind # kind

\* event j is the first call of its kind
FirstCall(kind, j) ==
    /\ EnrichTrace[j].kind = kind
    /\ \A n \in 1..(j - 1) : EnrichTrace[n].kind # kind

\* C31: in enrich_arxiv_items a delay separates every two successive
\* metadata calls and every two successive translation calls, and none is
\* made for the first call: no sleep comes before the first metadata call,
\* and the delay between translation requests is not made before the first
\* translation, also when the records before it were dropped or had no
\* abstract.
C31_DelayBetweenEnrichmentCalls ==
    Enriched =>
        /\ \A i \in 1..Len(EnrichTrace), j \in 1..Len(EnrichTrace) :
               \A kind \in {"metadata", "translate"} :
                   SuccessiveCalls(kind, i, j)
                       => \E n \in (i + 1)..(j - 1) : IsDelay(EnrichTrace[n])
        /\ \A j \in 1..Len(EnrichTrace) :
               /\ FirstCall("metadata", j)
                      => \A n \in 1..(j - 1) : ~IsDelay(EnrichTrace[n])
               /\ FirstCall("translate", j)
                      => ~(j > 1 /\ EnrichTrace[j - 1].kind = "sleep3")

-----------------------------------------------------------------------------
(* One week's processing, run_once from the search on: the steps in the    *)
(* order the code takes them                                               *)

Stage(stage, site, rank) == [stage |-> stage, site |-> site, rank |-> rank]

\* the records enrich_arxiv_items asks the network about: one step each
EnrichStages(site_items) ==
    LET asked == SelectSeq(site_items,
                           LAMBDA it : extract_arxiv_id(Get(it, "url", <<>>)) # NoneVal)
    IN [i \in 1..Len(asked) |-> Stage("enrich", "arxiv.org", RankKey(asked[i]))]

\* mutant: the arxiv.org records are enriched before the group is cut
TargetStages_EnrichAll(items, site) ==
    <<Stage("sort", site, 0), Stage("truncate", site, 0)>>
        \o (IF site = "arxiv.org"
            THEN EnrichStages(SortIfRanked(Grouped(items, site)))
            ELSE <<>>)

\* summarizer.py lines 37-52 for one target site: sort, cut to 30, and for
\* arxiv.org enrich what is left
TargetStages(items, site) ==
    <<Stage("sort", site, 0), Stage("truncate", site, 0)>>
        \o (IF site = "arxiv.org"
            THEN EnrichStages(Take(SortIfRanked(Grouped(items, site)), SiteCap))
            ELSE <<>>)

RECURSIVE TargetStagesUpTo(_, _)
TargetStagesUpTo(items, k) ==
    IF k = 0 THEN <<>>
    ELSE TargetStagesUpTo(items, k - 1) \o TargetStages(items, summary_target_sites[k])

\* simple_group_and_summarize: the grouping loop, the target sites, the
\* organizations, the other sites, the ordering of the blocks
SummarizeStages(items) ==
    <<Stage("group", "-", 0)>>
        \o TargetStagesUpTo(items, Len(summary_target_sites))
        \o <<Stage("sort", "organizations", 0), Stage("truncate", "organizations", 0),
             Stage("order", "-", 0)>>

\* run_once lines 68-81: search_all_sites, and when it returned records the
\* summary and the two writes
WeekStages(fetched) ==
    <<Stage("search", "-", 0)>>
        \o (IF ShouldSave(fetched)
            THEN SummarizeStages(fetched)
                     \o <<Stage("save_week", "-", 0), Stage("save_daily", "-", 0)>>
            ELSE <<>>)

\* n records of arxiv.org in rank order: a category page, then papers
ArxivLong(n) ==
    [i \in 1..n |->
        [title |-> <<ToString(i)>>,
         url |-> IF i = 1 THEN UrlArxivList ELSE UrlArxivAbs,
         snippet |-> <<"vla">>, site |-> "arxiv.org", rank |-> i]]

\* what search_all_sites may have returned for the week
WeekFetches ==
    SeqsUpTo(SummaryRecords, MaxSummary - 1)
        \cup {ArxivLong(n) : n \in {SiteCap, SiteCap + 1, SiteCap + 2}}

ProcessWeek(fetched) ==
    /\ ad_call = <<>>
    /\ LET net == [k \in 1..Len(fetched) |-> MetaOk]
       IN ad_call' = <<[adapter |-> "run_once", items |-> fetched,
                        stages |-> WeekStages(fetched),
                        out |-> IF ShouldSave(fetched)
                                THEN <<simple_group_and_summarize(
                                           fetched, net, RESEARCH_ORGANIZATIONS,
                                           IsoFormat(FirstDay))>>
                                ELSE <<>>]>>
    /\ UNCHANGED <<orchVars, driverVars, storageVars>>

InitProcess == InitAdapter

NextProcess == \E fetched \in WeekFetches : ProcessWeek(fetched)

SpecProcess == InitProcess /\ [][NextProcess]_vars

Processed == ad_call # <<>> /\ ad_call[1].adapter = "run_once"

Stages == ad_call[1].stages

StagesOf(kinds) == {i \in 1..Len(Stages) : Stages[i].stage \in kinds}

\* the preprint records fetched: records of arxiv.org whose url holds a
\* paper id
FetchedPapers ==
    SelectSeq(ad_call[1].items,
              LAMBDA it : SiteOf(it) = "arxiv.org" /\ HasPaperId(it))

\* C32 as claimed: the stages of a week come in the order Fetching,
\* Enriching, Aggregated, Persisted: every enrichment call comes after the
\* search and before any grouping, sorting or truncation, every fetched
\* preprint record is enriched, and the one write of the week comes after
\* the aggregation.
C32_EnrichBeforeAggregate ==
    Processed =>
        /\ \A e \in StagesOf({"enrich"}) :
               /\ \A s \in StagesOf({"search"}) : s < e
               /\ \A a \in StagesOf({"group", "sort", "truncate"}) : e < a
        /\ Cardinality(StagesOf({"enrich"})) = Len(FetchedPapers)
        /\ Cardinality(StagesOf({"save_week"})) <= 1
        /\ \A w \in StagesOf({"save_week"}) :
               \A a \in StagesOf({"group", "sort", "truncate", "enrich", "order"}) : a < w

\* the arxiv.org records that are within the cut of 30 and hold a paper id
PapersWithinCap ==
    LET ranked == SelectSeq(ad_call[1].items, LAMBDA it : SiteOf(it) = "arxiv.org")
    IN SelectSeq(ranked, LAMBDA it :
           /\ HasPaperId(it)
           /\ Cardinality({i \in 1..Len(ranked) :
                               RankKey(ranked[i]) < RankKey(it)}) < SiteCap)

\* C32, amended: every enrichment call comes after the search, after the
\* grouping and after the sort and the truncation of the arxiv.org group,
\* and before the blocks are put in order; the records enriched are the
\* preprint records among the 30 first of the sorted group, the others are
\* not enriched; the one write of the week comes after all of these.
C32_EnrichAfterCap ==
    Processed =>
        /\ \A e \in StagesOf({"enrich"}) :
               /\ \A s \in StagesOf({"search", "group"}) : s < e
               /\ \A a \in StagesOf({"sort", "truncate"}) :
                      Stages[a].site = "arxiv.org" => a < e
               /\ \A o \in StagesOf({"order"}) : e < o
        /\ (\A i \in 1..Len(ad_call[1].items) : "rank" \in DOMAIN ad_call[1].items[i])
               => {Stages[e].rank : e \in StagesOf({"enrich"})}
                      = {PapersWithinCap[i].rank : i \in 1..Len(PapersWithinCap)}
        /\ Cardinality(StagesOf({"enrich"})) <= SiteCap
        /\ Cardinality(StagesOf({"save_week"})) <= 1
        /\ \A w \in StagesOf({"save_week"}) :
               \A a \in StagesOf({"search", "group", "sort", "truncate", "enrich", "order"}) :
                   a < w

\* 32 records of arxiv.org were fetched, 31 of them papers: the 29 papers
\* among the first 30 were enriched, and the week was written
C32_Witness ==
    /\ Processed
    /\ Len(ad_call[1].items) = SiteCap + 2
    /\ Len(FetchedPapers) = SiteCap + 1
    /\ Cardinality(StagesOf({"enrich"})) = SiteCap - 1
    /\ StagesOf({"save_week"}) # {}

-----------------------------------------------------------------------------
(* C33: what one call of simple_group_and_summarize does besides returning *)

NextPure ==
    \E items \in WeekFetches : \E net \in SummaryNets(items) : CallSummarize(items, net)

SpecPure == InitSummarize /\ [][NextPure]_vars

\* the `sites` another call on the same input returns, the network
\* answering as in net2
SitesWith(net2) ==
    simple_group_and_summarize(ad_call[1].items, net2, RESEARCH_ORGANIZATIONS,
                               IsoFormat(FirstDay)).sites

EnrichedFields == {"arxiv_id", "title", "authors", "abstract", "abstract_zh"}

SameBut(after, before, fields) ==
    /\ DOMAIN before \subseteq DOMAIN after
    /\ DOMAIN after \subseteq DOMAIN before \cup fields
    /\ \A f \in DOMAIN before \ fields : after[f] = before[f]

-----------------------------------------------------------------------------
(* Driver processes side by side.  Each process is one invocation of       *)
(* run_once or of backfill_weeks.main; the archive is the only thing they  *)
(* share, and neither driver takes a lock on it.  A process does one step  *)
(* at a time: the read of the week, the search, the summary and the write. *)

RaceProcs == {1, 2}
MaxStarts == 2      \* how many times one process is started

\* a process: its driver, its position, the weeks it has still to do, its
\* raw_items, and as history the number of searches it made for the week at
\* hand since it last read that week, and the document it wrote last
IdleRun == [driver |-> "none", dpc |-> "idle", weeks |-> <<>>, raw_items |-> <<>>,
            started |-> 0, searches |-> 0, wrote |-> <<>>]

raceFrame ==
    UNCHANGED <<orchVars, ad_call, save_pending, listing, today, driver, dpc, run_args,
                run_today, weeks, raw_items, run_log, start_populated, prev_target>>

\* run_daily.py lines 42-54, backfill_weeks.py lines 60-95 with --since the
\* Monday of last week
RaceStart(p, d) ==
    LET target == get_week_start(today) - 7
        all_weeks == BackfillAllWeeks(backfill_get_week_start(target),
                                      backfill_get_week_start(today), <<>>)
        empty_weeks == SelectSeq(all_weeks, LAMBDA week_start :
                           ~BackfillPopulated(LoadResults(weeks_store, week_start)))
        week_list == IF d = "run_once" THEN <<target>> ELSE empty_weeks
    IN /\ runs[p].dpc \in {"idle", "returned", "raised"}
       /\ runs[p].started < MaxStarts
       /\ runs' = [runs EXCEPT ![p] =
                       [driver |-> d,
                        dpc |-> IF week_list # <<>> THEN "check" ELSE "returned",
                        weeks |-> week_list, raw_items |-> <<>>,
                        started |-> runs[p].started + 1,
                        searches |-> 0, wrote |-> <<>>]]
       /\ UNCHANGED <<weeks_store, daily_store, written>>
       /\ raceFrame

\* the week is done: run_once returns, main goes to its next week
RaceNextWeek(p) ==
    IF runs[p].driver = "run_once" \/ Tail(runs[p].weeks) = <<>>
    THEN [dpc |-> "returned", weeks |-> runs[p].weeks]
    ELSE [dpc |-> "check", weeks |-> Tail(runs[p].weeks)]

\* mutant: the read waits while another process is working on a week
RaceCheck_Locked(p) ==
    /\ runs[p].dpc = "check"
    /\ \A q \in RaceProcs \ {p} : runs[q].dpc \notin {"fetch", "save"}
    /\ LET week_start == Head(runs[p].weeks)
           existing == LoadResults(weeks_store, week_start)
           nxt == RaceNextWeek(p)
       IN IF HasItems(existing)
          THEN runs' = [runs EXCEPT ![p].dpc = nxt.dpc, ![p].weeks = nxt.weeks]
          ELSE runs' = [runs EXCEPT ![p].dpc = "fetch", ![p].searches = 0]
    /\ UNCHANGED <<weeks_store, daily_store, written>>
    /\ raceFrame

\* run_daily.py lines 56-62, backfill_weeks.py lines 101-112: the read of
\* the week and the test of what it holds
RaceCheck(p) ==
    /\ runs[p].dpc = "check"
    /\ LET week_start == Head(runs[p].weeks)
           existing == LoadResults(weeks_store, week_start)
           nxt == RaceNextWeek(p)
       IN IF (IF runs[p].driver = "run_once" THEN RunOncePopulated(existing)
              ELSE BackfillPopulated(existing))
          THEN runs' = [runs EXCEPT ![p].dpc = nxt.dpc, ![p].weeks = nxt.weeks]
          ELSE runs' = [runs EXCEPT ![p].dpc = "fetch", ![p].searches = 0]
    /\ UNCHANGED <<weeks_store, daily_store, written>>
    /\ raceFrame

\* run_daily.py lines 66-69, backfill_weeks.py lines 114-118
RaceFetch(p) ==
    /\ runs[p].dpc = "fetch"
    /\ \/ \E items \in SearchReturns :
              runs' = [runs EXCEPT ![p].dpc = "save", ![p].raw_items = items,
                                   ![p].searches = @ + 1]
       \/ runs' = [runs EXCEPT ![p].dpc = "raised", ![p].searches = @ + 1]
    /\ UNCHANGED <<weeks_store, daily_store, written>>
    /\ raceFrame

\* run_daily.py lines 71-81, backfill_weeks.py lines 120-126
RaceSave(p) ==
    /\ runs[p].dpc = "save"
    /\ LET week_start == Head(runs[p].weeks)
           nxt == RaceNextWeek(p)
           summary == WeekSummary(runs[p].raw_items, MetaOk, week_start)
           doc == IF runs[p].driver = "run_once"
                  THEN Put(summary, "date", IsoFormat(today))
                  ELSE summary
       IN IF ShouldSave(runs[p].raw_items)
          THEN /\ weeks_store' = SaveResults(weeks_store, week_start, doc)
               /\ daily_store' = IF runs[p].driver = "run_once"
                                 THEN SaveResults(daily_store, today, doc)
                                 ELSE daily_store
               /\ written' = WriteFile(written, FileKey(week_start), <<doc>>)
               /\ runs' = [runs EXCEPT ![p].dpc = nxt.dpc, ![p].weeks = nxt.weeks,
                                       ![p].raw_items = <<>>,
                                       ![p].wrote = <<[week |-> week_start, doc |-> doc]>>]
          ELSE /\ UNCHANGED <<weeks_store, daily_store, written>>
               /\ runs' = [runs EXCEPT ![p].dpc = nxt.dpc, ![p].weeks = nxt.weeks,
                                       ![p].raw_items = <<>>]
    /\ raceFrame

InitRace ==
    /\ InitDriver!1 /\ InitDriver!2 /\ InitDriver!3 /\ InitDriver!4
    /\ InitDriver!5 /\ InitDriver!6 /\ InitDriver!7 /\ InitDriver!8
    /\ InitDriver!9 /\ InitDriver!10 /\ InitDriver!11 /\ InitDriver!12
    /\ weeks_store = <<>>
    /\ daily_store = <<>>
    /\ today = FirstDay
    /\ driver = "none"
    /\ dpc = "idle"
    /\ run_args = [since |-> <<>>, max_weeks |-> 0, skip_if_all_exist |-> FALSE,
                   target |-> NoDate]
    /\ run_today = FirstDay
    /\ weeks = <<>>
    /\ raw_items = <<>>
    /\ run_log = <<>>
    /\ start_populated = {}
    /\ prev_target = NoDate
    /\ runs = [p \in RaceProcs |-> IdleRun]
    /\ save_pending = <<>>
    /\ written = <<>>
    /\ listing = <<>>

NextRace ==
    \E p \in RaceProcs :
        \/ \E d \in {"run_once", "backfill"} : RaceStart(p, d)
        \/ RaceCheck(p)
        \/ RaceFetch(p)
        \/ RaceSave(p)

SpecRace == InitRace /\ [][NextRace]_vars

\* C34: no lock guards the writers of a week.  A process that is at its
\* read of a week is never held back by what another process is doing, so
\* two runs can both find the week unpopulated, both run the pipeline and
\* both write; the archive then holds what the last write wrote.  One
\* process alone runs the pipeline at most once for a week after a read
\* that found it unpopulated and before its next read.
C34_NoLockLastWriteWins ==
    /\ \A p \in RaceProcs : runs[p].dpc = "check" => ENABLED RaceCheck(p)
    /\ \A name \in DOMAIN written :
           name \in DOMAIN weeks_store /\ <<weeks_store[name]>> = written[name]
    /\ \A p \in RaceProcs : runs[p].searches <= 1

\* both processes, each started once, wrote the same week; the first wrote
\* a document with items, so the second had read the week before that; the
\* archive holds the document of the second and not that of the first
C34_Witness ==
    /\ DOMAIN runs = RaceProcs
    /\ \A p \in RaceProcs : runs[p].started = 1 /\ runs[p].wrote # <<>>
    /\ runs[1].wrote[1].week = runs[2].wrote[1].week
    /\ HasItems(<<runs[1].wrote[1].doc>>)
    /\ runs[1].wrote[1].doc # runs[2].wrote[1].doc
    /\ LoadResults(weeks_store, runs[1].wrote[1].week) = <<runs[2].wrote[1].doc>>

-----------------------------------------------------------------------------
(* C35: the denylist of github_search and the cap *)

\* the items the provider holds that match no keyword of the denylist
NotDenylisted(items) ==
    SelectSeq(items, LAMBDA item :
        \A keyword \in filter_keywords :
            /\ ~Contains(Lower(Get(item, "full_name", <<>>)), keyword)
            /\ ~Contains(Lower(OrElse(Get(item, "description", <<>>), <<>>)), keyword)
            /\ ~Contains(Lower(OrElse(Get(item, "name", <<>>), <<>>)), keyword))

\* C35: github_search applies the denylist before the cap: what it returns
\* is made of the first max_results items of the provider, in the order of
\* the provider, among those that match no keyword of the denylist; an item
\* of the denylist takes no slot of the cap.
C35_DenylistBeforeCap ==
    (AdapterReturned /\ ad_call[1].adapter = "github") =>
        LET clean == NotDenylisted(ad_call[1].prov.items)
            kept  == Take(clean, Min(ad_call[1].max_results, GithubMaxResults))
        IN ad_call[1].out.results = [i \in 1..Len(kept) |-> GithubRecord(kept[i], i)]

-----------------------------------------------------------------------------
(* C36: groups that mix ranked and unranked records *)

Ranked(items)   == SelectSeq(items, LAMBDA it : "rank" \in DOMAIN it)
Unranked(items) == SelectSeq(items, LAMBDA it : "rank" \notin DOMAIN it)

\* C36: in every block other than the organization block the records that
\* carry a rank are in ascending rank order and the records without a rank
\* are in their arrival order, whatever the mix of ranked and unranked
\* records and whichever of them arrived first.
C36_SortedWheneverRanked ==
    Summarized =>
        \A k \in 1..Len(Blocks) :
            LET block  == Blocks[k]
                ranked == Ranked(block.items)
            IN block.site # "organizations" =>
                  /\ \A i \in 1..Len(ranked), j \in 1..Len(ranked) :
                         i < j => ranked[i].rank <= ranked[j].rank
                  /\ block.site # "arxiv.org" =>
                         IsPrefix(Unranked(block.items), Unranked(InputOf(block.site)))

-----------------------------------------------------------------------------
(* C37: key, window and document of a week *)

\* the Mondays of the calendar
Mondays == {d \in DayMin..DayMax - 7 : Weekday(d) = 0}

\* C37: for every week a driver processes, the key K is a Monday, the
\* window given to search_all_sites is after = K and before = K + 7 days,
\* so after <= before, and the document stored under K has week_start = K
\* and week_end = K + 6 days.
C37_KeyWindowDocumentAgree ==
    /\ \A i \in 1..Len(run_log) :
           LET e == run_log[i]
           IN /\ e.week \in Mondays
              /\ e.ev \in {"search", "raise", "write"} =>
                     /\ e.after_date = IsoFormat(e.week)
                     /\ e.before_date = IsoFormat(e.week + 7)
                     /\ StrpTime(e.after_date) <= StrpTime(e.before_date)
    /\ \A name \in DOMAIN weeks_store :
           \E K \in Mondays :
               /\ name = FileKey(K)
               /\ weeks_store[name].week_start = IsoFormat(K)
               /\ weeks_store[name].week_end = IsoFormat(K + 6)

\* backfill, asked for the weeks since Tuesday 2025-01-14, searched the
\* window 2025-01-13 .. 2025-01-20 and wrote the week under 2025-01-13
C37_Witness ==
    /\ driver = "backfill"
    /\ run_args.since = IsoFormat(8)
    /\ \E i \in 1..Len(run_log) :
           /\ run_log[i].ev = "write"
           /\ run_log[i].week = 7
           /\ run_log[i].before_date = IsoFormat(14)
    /\ LoadResults(weeks_store, 7) # <<>>
    /\ LoadResults(weeks_store, 7)[1].week_end = IsoFormat(13)

-----------------------------------------------------------------------------
(* C38: run_once on every day of the week.  The clock stands at any day of *)
(* two weeks and run_once is invoked, again and again, on an archive that  *)
(* starts empty.                                                           *)

RunOnceDays == 14..27      \* Monday 2025-01-20 .. Sunday 2025-02-02

InitRunOnce ==
    /\ InitDriver!1 /\ InitDriver!2 /\ InitDriver!3 /\ InitDriver!4
    /\ InitDriver!5 /\ InitDriver!6 /\ InitDriver!7 /\ InitDriver!8
    /\ InitDriver!9 /\ InitDriver!10 /\ InitDriver!11 /\ InitDriver!12
    /\ weeks_store = <<>>
    /\ daily_store = <<>>
    /\ today \in RunOnceDays
    /\ driver = "none"
    /\ dpc = "idle"
    /\ run_args = [since |-> <<>>, max_weeks |-> 0, skip_if_all_exist |-> FALSE,
                   target |-> NoDate]
    /\ run_today = today
    /\ weeks = <<>>
    /\ raw_items = <<>>
    /\ run_log = <<>>
    /\ start_populated = {}
    /\ prev_target = NoDate
    /\ runs = <<>>
    /\ save_pending = <<>>
    /\ written = <<>>
    /\ listing = <<>>

NextRunOnce == RunOnceStart \/ RunOnceCheck \/ RunOnceFetch \/ RunOnceSave

SpecRunOnce == InitRunOnce /\ [][NextRunOnce]_vars

\* the Monday of the week before the week that holds day d
WeekBefore(d) == CHOOSE K \in DayMin..DayMax : Weekday(K) = 0 /\ K + 7 <= d /\ d <= K + 13

\* C38: an invocation of run_once processes one week, the week before the
\* week that holds today, whatever the weekday of today: that week is the
\* only one it reads, it makes at most one search and one write, both for
\* that week, and the weekly archive holds no other week.
C38_OnlyPreviousWeek ==
    driver = "run_once" =>
        /\ weeks = <<WeekBefore(run_today)>>
        /\ run_args.target = WeekBefore(run_today)
        /\ \A i \in 1..Len(run_log) : run_log[i].week = WeekBefore(run_today)
        /\ Cardinality({i \in 1..Len(run_log) : run_log[i].ev \in {"search", "raise"}}) <= 1
        /\ Cardinality({i \in 1..Len(run_log) : run_log[i].ev = "write"}) <= 1
        /\ DOMAIN weeks_store \subseteq {FileKey(WeekBefore(run_today))}
        /\ DOMAIN daily_store \subseteq {FileKey(run_today)}

\* on Thursday 2025-01-30 run_once searched and wrote the week of Monday
\* 2025-01-20, and nothing for the week of 2025-01-27
C38_Witness ==
    /\ driver = "run_once" /\ dpc = "returned"
    /\ run_today = 24
    /\ Len(run_log) = 2
    /\ run_log[1].ev = "search" /\ run_log[2].ev = "write"
    /\ run_log[2].week = 14
    /\ DOMAIN weeks_store = {FileKey(14)}

-----------------------------------------------------------------------------
(* app.py: the /run-daily trigger.  A request is answered 401 at once, or  *)
(* it runs run_once and is answered when run_once has returned or raised.  *)

\* a token is a text; request.args.get("token") and os.environ.get give
\* None when there is none
SecretToken == <<"secret">>
EnvTokens == {NoneVal, <<>>, SecretToken}
RequestTokens == {NoneVal, <<>>, SecretToken, <<"guess">>}

Pending == 0      \* the request is being served: no answer yet

\* mutant: a request without token is let through
Unauthorized_MissingAllowed(expected_token, token) ==
    Truthy(expected_token) /\ token # expected_token /\ token # NoneVal

\* lines 488-492: the request is turned away
Unauthorized(expected_token, token) == Truthy(expected_token) /\ token # expected_token

TriggerRecord(expected_token, token, status) ==
    [adapter |-> "trigger_daily_update", expected_token |-> expected_token,
     token |-> token, status |-> status]

\* lines 487-496: the test of the token, then the call of run_once, which
\* begins as in RunOnceStart
trigger_daily_update(expected_token, token) ==
    /\ DriverIdle
    /\ IF ad_call = <<>> THEN TRUE ELSE ad_call[1].status # Pending
    /\ IF Unauthorized(expected_token, token)
       THEN /\ ad_call' = <<TriggerRecord(expected_token, token, 401)>>
            /\ UNCHANGED <<orchVars, driverVars, storageVars>>
       ELSE LET week_start == IF Weekday(today) = 0
                              THEN get_week_start(today) - 7
                              ELSE LET current_week_start == get_week_start(today)
                                   IN current_week_start - 7
            IN /\ ad_call' = <<TriggerRecord(expected_token, token, Pending)>>
               /\ Invoke("run_once",
                         [since |-> <<>>, max_weeks |-> 0, skip_if_all_exist |-> FALSE,
                          target |-> week_start],
                         <<week_start>>)
               /\ dpc' = "check"
               /\ UNCHANGED <<orchVars, storageVars, runs>>

\* lines 497-501: run_once has returned, or has raised and the exception
\* is caught
TriggerRespond ==
    /\ ad_call # <<>> /\ ad_call[1].status = Pending
    /\ dpc \in {"returned", "raised"}
    /\ ad_call' = <<[ad_call[1] EXCEPT !.status = IF dpc = "returned" THEN 200 ELSE 500]>>
    /\ UNCHANGED <<orchVars, driverVars, storageVars>>

InitTrigger == InitRunOnce /\ today <= LastDay + 1

NextTrigger ==
    \/ \E expected_token \in EnvTokens, token \in RequestTokens :
           trigger_daily_update(expected_token, token)
    \/ RunOnceCheck
    \/ RunOnceFetch
    \/ RunOnceSave
    \/ TriggerRespond

SpecTrigger == InitTrigger /\ [][NextTrigger]_vars

\* a request has just come in
Requested ==
    /\ ad_call' # <<>>
    /\ ad_call'[1].status \in {Pending, 401}
    /\ ad_call = <<>> \/ ad_call[1].status # Pending

\* C39: when an UPDATE_TOKEN is configured, a request whose token is
\* missing or different is answered 401 and run_once is not invoked: no
\* search, the archive as it was.  A request with the matching token, and
\* any request when no UPDATE_TOKEN is configured, starts a run; and the
\* archive changes and a search is made only while such a request is served.
C39_TokenGuardsTrigger ==
    [][/\ Requested =>
            LET req == ad_call'[1]
            IN IF req.expected_token \notin {NoneVal, <<>>}
                  /\ req.token # req.expected_token
               THEN /\ req.status = 401
                    /\ UNCHANGED <<weeks_store, daily_store, run_log, driver, dpc, weeks>>
               ELSE /\ req.status = Pending
                    /\ driver' = "run_once" /\ dpc' = "check"
       /\ (weeks_store' # weeks_store \/ daily_store' # daily_store
              \/ (run_log' # run_log /\ run_log' # <<>>))
             => /\ ad_call # <<>> /\ ad_call[1].status = Pending
                /\ (ad_call[1].expected_token \in {NoneVal, <<>>}
                       \/ ad_call[1].token = ad_call[1].expected_token)]_vars

\* after a run that wrote a week, a request without token was answered 401
\* while the token "secret" is configured
C39_Witness ==
    /\ ad_call # <<>>
    /\ ad_call[1].adapter = "trigger_daily_update"
    /\ ad_call[1].expected_token = SecretToken
    /\ ad_call[1].token = NoneVal
    /\ ad_call[1].status = 401
    /\ weeks_store # <<>>
    /\ dpc = "returned"

=============================================================================
